---- MODULE Spec2Model ----
(***************************************************************************)
(* Model of the Morning Brew pipeline orchestrator (src/ocr/pipeline.py)   *)
(* and of the collaborators it drives, as far as the orchestrator sees     *)
(* them: the URL scraper, the PDF generator, the text extractor and the    *)
(* newsletter processor.                                                   *)
(*                                                                         *)
(* One operating-system process at a time works on the output base (the    *)
(* spec's deployment assumption).  A process is main(): it constructs an   *)
(* orchestrator, optionally loads a persisted state into it, and calls     *)
(* run_pipeline.  run_pipeline is modelled statement group by statement    *)
(* group (pc is its position), so that an interrupt can fall between any   *)
(* two writes to the file system.                                          *)
(*                                                                         *)
(* The text extractor (src/ocr/src/ocr2.py) is also modelled on its own,   *)
(* document by document and page by page, as process_directory runs over   *)
(* a directory of PDFs (SpecExtract), and so is the newsletter processor    *)
(* (src/ocr/src/text_parse.py), attempt by attempt, as process_batch runs  *)
(* over a list of documents (SpecBatch).                                   *)
(*                                                                         *)
(* Run directories are numbered 1..MaxRuns in creation order: the model    *)
(* assumes two orchestrators are never constructed within the same second, *)
(* so every construction gets a fresh run directory.                       *)
(***************************************************************************)
EXTENDS Integers, Sequences, FiniteSets, TLC

\* Bounds of the model.
MaxArticles == 2   \* articles the archive page can list
MaxRuns == 2       \* orchestrators constructed over the life of the output base
MaxLimit == 2      \* largest --limit
MaxPdfs == 2       \* PDFs in the input directory of process_directory
MaxPages == 2      \* pages of a PDF
MaxDocs == 3       \* documents handed to process_batch

Articles == 1..MaxArticles
Dirs == 1..MaxRuns

\* ------------------------------------------------------------------------
\* Names
\* ------------------------------------------------------------------------

\* run_pipeline: all_steps, in the order of its four `if` statements.
all_steps == <<"scrape", "pdf", "ocr", "parse">>

StepSet == {all_steps[i] : i \in 1..Len(all_steps)}

\* Position of a step of all_steps.
Idx(s) == CHOOSE i \in 1..Len(all_steps) : all_steps[i] = s

\* The name each stage method appends to state["steps_completed"].
StageName(s) ==
  CASE s = "scrape" -> "scrape_urls"
    [] s = "pdf" -> "generate_pdfs"
    [] s = "ocr" -> "extract_text"
    [] s = "parse" -> "process_text"

\* The status each stage method sets on completion.
StatusAfter(s) ==
  CASE s = "scrape" -> "urls_scraped"
    [] s = "pdf" -> "pdfs_generated"
    [] s = "ocr" -> "text_extracted"
    [] s = "parse" -> "completed"

\* The key of the state list a stage fills, which is also its key in results["results"].
ResultKey(s) ==
  CASE s = "scrape" -> "urls"
    [] s = "pdf" -> "pdfs"
    [] s = "ocr" -> "texts"
    [] s = "parse" -> "processed"

\* The order of the status values.
StatusRank(st) ==
  CASE st = "initialized" -> 0
    [] st = "urls_scraped" -> 1
    [] st = "pdfs_generated" -> 2
    [] st = "text_extracted" -> 3
    [] st = "completed" -> 4

\* ------------------------------------------------------------------------
\* Sequences and file names
\* ------------------------------------------------------------------------

Range(q) == {q[i] : i \in 1..Len(q)}

\* The smaller of two numbers.
Min(a, b) == IF a < b THEN a ELSE b

IsIn(x, q) == \E i \in 1..Len(q) : q[i] = x

RECURSIVE SeqMap(_, _)
SeqMap(F(_), q) == IF q = <<>> THEN <<>> ELSE <<F(Head(q))>> \o SeqMap(F, Tail(q))

\* A file name is <<stem, suffix>>; a bare stem (Path.stem) is <<stem, "">>.
\* process_urls / generate_pdf: the PDF of an article is named after its date
\* and title; the articles of the pipeline model are such that their
\* sanitised date-title strings differ, and article ids stand for them (the
\* naming itself is modelled with MorningBrewPDFGenerator, below).
PdfName(a) == <<a, "pdf">>

\* Path.stem
Stem(name) == <<name[1], "">>

\* process_directory: output_file = output_dir / f"{pdf_path.stem}.txt"
TxtName(pdf) == <<pdf[1], "txt">>

\* Path.glob: the files of a directory, here in ascending order of stem.
RECURSIVE Glob(_)
Glob(files) ==
  IF files = {} THEN <<>>
  ELSE LET f == CHOOSE x \in files : \A y \in files : x[1] <= y[1]
       IN <<f>> \o Glob(files \ {f})

\* ------------------------------------------------------------------------
\* The pipeline state and the file system
\* ------------------------------------------------------------------------

\* MorningBrewPipeline.__init__: self.state
InitState(d) ==
  [run_id |-> d,
   status |-> "initialized",
   steps_completed |-> <<>>,
   urls |-> <<>>,
   pdfs |-> <<>>,
   texts |-> <<>>,
   processed |-> <<>>]

\* A run directory that does not exist yet.  A file that holds one value is a
\* sequence: <<>> when the file is absent, <<v>> when it holds v.
NoDir ==
  [exists |-> FALSE,
   state_file |-> <<>>,       \* pipeline_state.json
   urls_latest |-> <<>>,      \* urls/urls_latest.json
   pdfs |-> {},               \* pdfs/*.pdf
   texts |-> {},              \* extracted_text/*.txt
   individual |-> {},         \* processed/individual_summaries/*.txt
   jsonl |-> <<>>,            \* processed/processed_metadata.jsonl, one id per line
   results_file |-> FALSE]    \* pipeline_results.json exists

\* No orchestrator object.
NoPipe == [state |-> InitState(0), run_dir |-> 0, base |-> 0]

NoArgs == [steps |-> <<>>, limit |-> 0, force_ocr |-> FALSE]

NoCall == [stage |-> "", was_completed |-> FALSE, returned |-> FALSE]

NoTarget == [kind |-> "", dir |-> 0]

VARIABLES
  fs,        \* the output base: run directory -> its files
  mem,       \* the orchestrator: self.state, self.run_dir, and the run
             \* directory its urls_dir, pdfs_dir, text_dir, processed_dir lie in
  pc,        \* position of the process: "none" (no process), "ready" (an
             \* orchestrator exists, no call in progress), or a place in run_pipeline
  args,      \* run_pipeline: steps_to_run, limit, force_ocr
  results,   \* run_pipeline: results["results"], result key -> count
  summary,   \* <<what this run_pipeline call wrote into pipeline_results.json>>;
             \* the program never reads that file, so of the summaries of
             \* earlier calls the model keeps only that the file exists
  todo,      \* the items the running stage loop has still to handle
  acc,       \* what the running stage loop has produced so far
  call,      \* history: the stage method last called, and whether its stage
             \* was in steps_completed when it was called
  invoked,   \* history: the collaborators invoked during that call
  ret,       \* history: what that call returned
  returned,  \* history: stage -> <<what the call that completed it returned>>
  executed,  \* history: the stage methods called by this run_pipeline call, in order
  resumed,   \* history: what --resume named when this process started
  outcome,   \* how the last process or run_pipeline call ended
  environ,   \* os.environ of the process, as far as the program reads it
  \* PDFTextExtractor.process_directory, modelled on its own:
  input_dir,   \* the PDFs of input_dir: stem -> what the PDF holds
  output_dir,  \* self.output_dir: stem -> <<the text of stem.txt>>, <<>> if absent
  force,       \* force_ocr
  pdf_files,   \* the PDFs the loop has still to handle, the current one first
  extracted,   \* the results dictionary: PDF file name -> text
  stats,       \* self.stats
  page_num,    \* _extract_text_ocr: the page the loop is at
  text_parts,  \* _extract_text_ocr: text_parts, as the pages that gave text
  at,          \* position in process_directory
  tried,       \* history: stem -> the extraction methods called on the PDF
  handled,     \* history: stem -> how process_directory dealt with the PDF
  ocr_log,     \* history: the pages of the current PDF handed to OCR, with
               \* what became of each
  \* NewsletterProcessor.process_batch, modelled on its own:
  documents,       \* the documents the loop has still to handle, the current one first
  batch,           \* process_batch: results
  attempt,         \* process_document: attempt
  individual_dir,  \* individual_summaries: the ids that have a summary file
  jsonl_file,      \* processed_metadata.jsonl: the id of each line
  combined_file,   \* <<the records of training_data_combined.txt, in file order>>
  bat,             \* position in process_batch
  replies,         \* history: what the language model did on each attempt of
                   \* the last process_document call
  slept,           \* history: the time.sleep calls of that process_document call
  fate,            \* history: document id -> how its process_document call ended
  \* The CSV-ready file of process_batch, modelled on its own:
  rows,      \* results: the records, each an id and a summary
  csv_file,  \* summaries_for_csv.txt, line by line; <<>> before it is written
  \* The date post-processing of process_document, modelled on its own:
  date_info,  \* date_info: the token found in the file name
  raw,        \* history: result as the language model returned it
  result,     \* result
  pd,         \* position in process_document
  \* The max_clicks of run_pipeline, modelled on its own:
  cli,     \* --limit and --max-clicks: limit, and <<max_clicks>> or <<>> (None)
  clicks,  \* <<the max_clicks handed to step_scrape_urls>>, <<>> before the call
  \* The collaborators that talk to the web, each modelled on its own:
  reddit,     \* fetch_json of the Reddit scraper and the generator that calls it
  scraper,    \* scrape_morning_brew_urls
  generator   \* MorningBrewPDFGenerator inside step_generate_pdfs

pipelineVars == <<fs, mem, pc, args, results, summary, todo, acc, call, invoked,
                  ret, returned, executed, resumed, outcome, environ>>

extractorVars == <<input_dir, output_dir, force, pdf_files, extracted, stats,
                   page_num, text_parts, at, tried, handled, ocr_log>>

processorVars == <<documents, batch, attempt, individual_dir, jsonl_file,
                   combined_file, bat, replies, slept, fate>>

functionVars == <<rows, csv_file, date_info, raw, result, pd, cli, clicks>>

webVars == <<reddit, scraper, generator>>

\* The collaborators modelled on their own.
componentVars == <<extractorVars, processorVars, functionVars, webVars>>

vars == <<pipelineVars, componentVars>>

NoReturns == [s \in StepSet |-> <<>>]

\* self.stats of a new PDFTextExtractor
NoStats == [processed |-> 0, direct_text |-> 0, ocr_used |-> 0, failed |-> 0]

\* No process_directory call.
NoExtractor ==
  /\ input_dir = <<>>
  /\ output_dir = <<>>
  /\ force = FALSE
  /\ pdf_files = <<>>
  /\ extracted = <<>>
  /\ stats = NoStats
  /\ page_num = 0
  /\ text_parts = <<>>
  /\ at = "none"
  /\ tried = <<>>
  /\ handled = <<>>
  /\ ocr_log = <<>>

\* No process_batch call.
NoProcessor ==
  /\ documents = <<>>
  /\ batch = <<>>
  /\ attempt = 0
  /\ individual_dir = {}
  /\ jsonl_file = <<>>
  /\ combined_file = <<>>
  /\ bat = "none"
  /\ replies = <<>>
  /\ slept = <<>>
  /\ fate = <<>>

\* None of the functions modelled on their own is called.
NoFunctions ==
  /\ rows = <<>>
  /\ csv_file = <<>>
  /\ date_info = <<>>
  /\ raw = <<>>
  /\ result = <<>>
  /\ pd = "none"
  /\ cli = <<>>
  /\ clicks = <<>>

\* None of the collaborators that talk to the web is called.
NoWeb ==
  /\ reddit = <<>>
  /\ scraper = <<>>
  /\ generator = <<>>

\* The environment of no process.
NoEnviron == [OPENAI_API_KEY |-> FALSE]

\* No orchestrator process.
NoPipeline ==
  /\ fs = [d \in Dirs |-> NoDir]
  /\ mem = NoPipe
  /\ pc = "none"
  /\ args = NoArgs
  /\ results = <<>>
  /\ summary = <<>>
  /\ todo = <<>>
  /\ acc = <<>>
  /\ call = NoCall
  /\ invoked = {}
  /\ ret = <<>>
  /\ returned = NoReturns
  /\ executed = <<>>
  /\ resumed = NoTarget
  /\ outcome = "none"
  /\ environ = NoEnviron

Init == NoPipeline /\ NoExtractor /\ NoProcessor /\ NoFunctions /\ NoWeb

\* _save_state: json.dump(self.state) into run_dir / "pipeline_state.json"
SaveState_lost(f, dir, st) == f

SaveState(f, dir, st) == [f EXCEPT ![dir].state_file = <<st>>]

\* _load_state: True iff run_dir / "pipeline_state.json" exists
StateFileExists_always(f, target) == TRUE

StateFileExists(f, target) ==
  /\ target.kind = "run"
  /\ f[target.dir].state_file # <<>>

\* The run directories constructed so far, and the next one.
Constructed == {d \in Dirs : fs[d].exists}

NextDir == Cardinality(Constructed) + 1

\* MorningBrewPipeline.__init__: a fresh run directory with its four
\* subdirectories, the initial state, saved.
Construct(f, d) == SaveState([f EXCEPT ![d].exists = TRUE], d, InitState(d))

\* What --resume can name: a directory that does not exist, a directory that
\* exists and holds no pipeline_state.json, or a run directory.
ResumeTargets ==
  {[kind |-> "missing", dir |-> 0], [kind |-> "nostate", dir |-> 0]}
    \cup {[kind |-> "run", dir |-> d] : d \in Constructed}

\* ------------------------------------------------------------------------
\* main: create or resume the orchestrator
\* ------------------------------------------------------------------------

\* A process starts when none runs, or when the previous one has returned
\* from run_pipeline and ends.
CanStart == pc \in {"none", "ready"}

FreshHistory ==
  /\ args' = NoArgs
  /\ results' = <<>>
  /\ summary' = <<>>
  /\ todo' = <<>>
  /\ acc' = <<>>
  /\ call' = NoCall
  /\ invoked' = {}
  /\ ret' = <<>>
  /\ returned' = NoReturns
  /\ executed' = <<>>

\* main without --resume: pipeline = MorningBrewPipeline(output_base).  A run
\* that resumes nothing never reads a directory of an earlier run, so it
\* behaves as the first run on an empty output base does: the model has one
\* such run, and every later process resumes.
New ==
  /\ CanStart
  /\ Constructed = {}
  /\ NextDir <= MaxRuns
  /\ fs' = Construct(fs, NextDir)
  /\ mem' = [state |-> InitState(NextDir), run_dir |-> NextDir, base |-> NextDir]
  /\ pc' = "ready"
  /\ resumed' = NoTarget
  /\ outcome' = "constructed"
  /\ FreshHistory

\* main with --resume naming a directory that does not exist: exit 1 before
\* any orchestrator is constructed.
ResumeMissingDir ==
  /\ CanStart
  /\ fs' = fs
  /\ mem' = NoPipe
  /\ pc' = "none"
  /\ resumed' = [kind |-> "missing", dir |-> 0]
  /\ outcome' = "resume_dir_not_found"
  /\ FreshHistory

\* Where urls_dir, pdfs_dir, text_dir and processed_dir of a resumed
\* orchestrator lie: __init__ made them under the run directory it
\* constructed, and _load_state assigns self.state, self.run_id and
\* self.run_dir only.
StageDirs_loaded(target, constructed) == target.dir

StageDirs(target, constructed) == constructed

\* main with --resume naming an existing directory: the orchestrator is
\* constructed (with a run directory of its own), then _load_state replaces
\* self.state, self.run_id and self.run_dir, and nothing else; without a
\* state file main exits 1.
Resume(target) ==
  /\ CanStart
  /\ target.kind # "missing"
  /\ NextDir <= MaxRuns
  /\ fs' = Construct(fs, NextDir)
  /\ resumed' = target
  /\ FreshHistory
  /\ IF StateFileExists(fs', target)
     THEN /\ mem' = IF target.kind = "run"
                    THEN [state |-> fs'[target.dir].state_file[1],
                          run_dir |-> target.dir,
                          base |-> StageDirs(target, NextDir)]
                    ELSE [state |-> InitState(NextDir), run_dir |-> NextDir,
                          base |-> NextDir]
          /\ pc' = "ready"
          /\ outcome' = "resumed"
     ELSE /\ mem' = NoPipe
          /\ pc' = "none"
          /\ outcome' = "state_not_found"

\* ------------------------------------------------------------------------
\* run_pipeline
\* ------------------------------------------------------------------------

\* --steps: any of the four step names, in any order (no repetition); the
\* empty list stands for no --steps at all.
StepLists ==
  {q \in UNION {[1..n -> StepSet] : n \in 0..Len(all_steps)} :
     \A i, j \in 1..Len(q) : q[i] = q[j] => i = j}

\* --limit is any integer (type=int).
Limits == -1..MaxLimit

\* run_pipeline runs through `if "scrape" in steps_to_run`, `if "pdf" in ...`,
\* `if "ocr" in ...`, `if "parse" in ...`, in this order: the position in
\* all_steps of the next requested step after position i, 0 when there is none.
NextStep_requested(steps, i) ==
  IF i = 0 THEN Idx(steps[1])
  ELSE LET k == CHOOSE j \in 1..Len(steps) : steps[j] = all_steps[i]
       IN IF k < Len(steps) THEN Idx(steps[k + 1]) ELSE 0

NextStep(steps, i) ==
  LET later == {j \in (i + 1)..Len(all_steps) : IsIn(all_steps[j], steps)}
  IN IF later = {} THEN 0 ELSE CHOOSE j \in later : \A k \in later : j <= k

\* The check every stage method starts with.
IsCompleted_never(st, s) == FALSE

IsCompleted(st, s) == IsIn(StageName(s), st.steps_completed)

\* "Check prerequisites": the upstream list of the state is not empty.
HasUpstream_always(st, key) == TRUE

HasUpstream(st, key) == st[key] # <<>>

\* The update every stage method ends with, before _save_state.
Complete_overwrite(st, s, items) ==
  [st EXCEPT ![ResultKey(s)] = items,
             !.steps_completed = <<StageName(s)>>,
             !.status = StatusAfter(s)]

Complete(st, s, items) ==
  [st EXCEPT ![ResultKey(s)] = items,
             !.steps_completed = Append(@, StageName(s)),
             !.status = StatusAfter(s)]

\* Control passes to the stage method at position i of all_steps, or to the
\* final summary when i = 0; done are the stage methods called so far.
Goto(i, done) ==
  IF i = 0
  THEN /\ pc' = "finish"
       /\ executed' = done
       /\ UNCHANGED <<call, invoked, ret>>
  ELSE /\ pc' = all_steps[i]
       /\ call' = [stage |-> all_steps[i],
                   was_completed |->
                     \E k \in 1..Len(mem.state.steps_completed) :
                       mem.state.steps_completed[k] = StageName(all_steps[i]),
                   returned |-> FALSE]
       /\ invoked' = {}
       /\ ret' = <<>>
       /\ executed' = Append(done, all_steps[i])

\* The stage method returns v to run_pipeline.
Return(v) ==
  /\ ret' = v
  /\ call' = [call EXCEPT !.returned = TRUE]
  /\ pc' = "returned"

\* The process ends: an exception or an interrupt leaves run_pipeline and main.
Die(how) ==
  /\ pc' = "none"
  /\ outcome' = how
  /\ mem' = NoPipe
  /\ results' = <<>>
  /\ todo' = <<>>
  /\ acc' = <<>>

\* run_pipeline(steps, limit, force_ocr), up to the first stage method.
RunPipeline(steps, limit, force_ocr) ==
  /\ pc = "ready"
  /\ args' = [steps |-> IF steps = <<>> THEN all_steps ELSE steps,
              limit |-> limit,
              force_ocr |-> force_ocr]
  /\ results' = <<>>
  /\ summary' = <<>>
  /\ outcome' = "running"
  /\ Goto(NextStep(args'.steps, 0), <<>>)
  /\ UNCHANGED <<fs, mem, todo, acc, returned, resumed>>

\* run_pipeline: `if not urls: ... return results`, and the same after
\* step_generate_pdfs and step_extract_text; there is none after
\* step_process_text.
Halts_never(s, v) == FALSE

Halts(s, v) == s # "parse" /\ Len(v) = 0

\* run_pipeline after a stage method has returned: the count goes into
\* results["results"]; an empty result of scrape, pdf or ocr returns at once,
\* without the summary file; otherwise the next requested stage is called.
AfterStage ==
  /\ pc = "returned"
  /\ results' = (ResultKey(call.stage) :> Len(ret)) @@ results
  /\ IF Halts(call.stage, ret)
     THEN /\ pc' = "done"
          /\ outcome' = "halted"
          /\ UNCHANGED <<args, call, invoked, ret, executed>>
     ELSE /\ Goto(NextStep(args.steps, Idx(call.stage)), executed)
          /\ UNCHANGED <<outcome, args>>
  /\ UNCHANGED <<fs, mem, summary, todo, acc, returned, resumed>>

\* run_pipeline: the results dictionary, as it stands at the end.
Summary_all_steps(run_id, run_dir, steps, res) ==
  [run_id |-> run_id, run_dir |-> run_dir, steps_run |-> all_steps, results |-> res]

Summary(run_id, run_dir, steps, res) ==
  [run_id |-> run_id, run_dir |-> run_dir, steps_run |-> steps, results |-> res]

\* run_pipeline: "Save final results" and return.
Finish ==
  /\ pc = "finish"
  /\ fs' = [fs EXCEPT ![mem.run_dir].results_file = TRUE]
  /\ summary' = <<Summary(mem.state.run_id, mem.run_dir, args.steps, results)>>
  /\ pc' = "done"
  /\ outcome' = "ok"
  /\ UNCHANGED <<mem, args, results, todo, acc, call, invoked, ret, returned,
                 executed, resumed>>

\* run_pipeline has returned its results dictionary; the caller drops it.
ReturnToCaller ==
  /\ pc = "done"
  /\ pc' = "ready"
  /\ outcome' = "idle"
  /\ args' = NoArgs
  /\ results' = <<>>
  /\ summary' = <<>>
  /\ call' = NoCall
  /\ invoked' = {}
  /\ ret' = <<>>
  /\ executed' = <<>>
  /\ UNCHANGED <<fs, mem, todo, acc, returned, resumed>>

\* KeyboardInterrupt anywhere inside run_pipeline: main prints the resume
\* hint and the process ends, and with it everything it held in memory.
Interrupt ==
  /\ pc \notin {"none", "ready", "done"}
  /\ pc' = "none"
  /\ outcome' = "interrupted"
  /\ mem' = NoPipe
  /\ FreshHistory
  /\ UNCHANGED <<fs, resumed>>

\* ------------------------------------------------------------------------
\* Step 1: step_scrape_urls
\* ------------------------------------------------------------------------

\* What the archive page can list: the first n articles, for any n.
ScrapeResults == {[i \in 1..n |-> i] : n \in 0..MaxArticles}

\* "URLs already scraped, loading from file...": urls_dir / "urls_latest.json"
\* is opened; open() raises FileNotFoundError when it is absent, which leaves
\* run_pipeline and makes main exit 1.
ScrapeSkip ==
  /\ pc = "scrape"
  /\ IsCompleted(mem.state, "scrape")
  /\ IF fs[mem.base].urls_latest = <<>>
     THEN /\ Die("failed")
          /\ UNCHANGED <<summary, fs, args, call, invoked, ret, returned, executed,
                         resumed>>
     ELSE /\ mem' = [mem EXCEPT !.state.urls = fs[mem.base].urls_latest[1]]
          /\ Return(fs[mem.base].urls_latest[1])
          /\ UNCHANGED <<summary, fs, args, results, todo, acc, invoked, returned, executed,
                         resumed, outcome>>

\* articles = scrape_morning_brew_urls(...)
ScrapeInvoke(articles) ==
  /\ pc = "scrape"
  /\ ~IsCompleted(mem.state, "scrape")
  /\ invoked' = invoked \cup {"scrape"}
  /\ acc' = articles
  /\ pc' = "scrape_got"
  /\ UNCHANGED <<summary, fs, mem, args, results, todo, call, ret, returned, executed,
                 resumed, outcome>>

\* `if articles:` save_urls writes urls_latest.json; else the method returns [].
ScrapeSaveUrls ==
  /\ pc = "scrape_got"
  /\ IF acc # <<>>
     THEN /\ fs' = [fs EXCEPT ![mem.base].urls_latest = <<acc>>]
          /\ pc' = "scrape_saved"
          /\ UNCHANGED <<acc, call, ret>>
     ELSE /\ Return(<<>>)
          /\ acc' = <<>>
          /\ fs' = fs
  /\ UNCHANGED <<summary, mem, args, results, todo, invoked, returned, executed, resumed,
                 outcome>>

\* "Update state", _save_state, return articles.
ScrapeEnd ==
  /\ pc = "scrape_saved"
  /\ mem' = [mem EXCEPT !.state = Complete(@, "scrape", acc)]
  /\ fs' = SaveState(fs, mem.run_dir, mem'.state)
  /\ Return(acc)
  /\ returned' = [returned EXCEPT !["scrape"] = <<acc>>]
  /\ acc' = <<>>
  /\ UNCHANGED <<summary, args, results, todo, invoked, executed, resumed, outcome>>

\* ------------------------------------------------------------------------
\* Step 2: step_generate_pdfs
\* ------------------------------------------------------------------------

\* "PDFs already generated, skipping...": the paths of state["pdfs"] under pdfs_dir.
PdfSkip ==
  /\ pc = "pdf"
  /\ IsCompleted(mem.state, "pdf")
  /\ Return(mem.state.pdfs)
  /\ UNCHANGED <<summary, fs, mem, args, results, todo, acc, invoked, returned, executed,
                 resumed, outcome>>

\* "No URLs available. Run step 1 first."
PdfNoUrls ==
  /\ pc = "pdf"
  /\ ~IsCompleted(mem.state, "pdf")
  /\ ~HasUpstream(mem.state, "urls")
  /\ Return(<<>>)
  /\ UNCHANGED <<summary, fs, mem, args, results, todo, acc, invoked, returned, executed,
                 resumed, outcome>>

\* process_urls: articles[start_from:start_from + limit], with start_from = 0
\* (a slice stops at limit, at the end of the list if that comes first, and
\* a negative limit counts from the end of the list).
Slice(articles, limit) ==
  LET stop == IF limit < 0 THEN Len(articles) + limit ELSE limit
  IN SubSeq(articles, 1, IF stop < Len(articles) THEN stop ELSE Len(articles))

\* The generator is entered, urls_latest.json is rewritten from state["urls"]
\* and process_urls reads it back and takes its slice.
PdfBegin ==
  /\ pc = "pdf"
  /\ ~IsCompleted(mem.state, "pdf")
  /\ HasUpstream(mem.state, "urls")
  /\ invoked' = invoked \cup {"pdf"}
  /\ fs' = [fs EXCEPT ![mem.base].urls_latest = <<mem.state.urls>>]
  /\ todo' = Slice(fs'[mem.base].urls_latest[1], args.limit)
  /\ acc' = <<>>
  /\ pc' = "pdf_loop"
  /\ UNCHANGED <<summary, mem, args, results, call, ret, returned, executed, resumed,
                 outcome>>

\* generate_pdf for the next article: the PDF is written and its path kept,
\* or the rendering fails and None is returned.
PdfOne(ok) ==
  /\ pc = "pdf_loop"
  /\ todo # <<>>
  /\ IF ok
     THEN /\ fs' = [fs EXCEPT ![mem.base].pdfs = @ \cup {PdfName(Head(todo))}]
          /\ acc' = Append(acc, PdfName(Head(todo)))
     ELSE UNCHANGED <<fs, acc>>
  /\ todo' = Tail(todo)
  /\ UNCHANGED <<summary, mem, pc, args, results, call, invoked, ret, returned, executed,
                 resumed, outcome>>

\* "Update state", _save_state, return pdf_paths.
PdfEnd ==
  /\ pc = "pdf_loop"
  /\ todo = <<>>
  /\ mem' = [mem EXCEPT !.state = Complete(@, "pdf", acc)]
  /\ fs' = SaveState(fs, mem.run_dir, mem'.state)
  /\ Return(acc)
  /\ returned' = [returned EXCEPT !["pdf"] = <<acc>>]
  /\ acc' = <<>>
  /\ UNCHANGED <<summary, args, results, todo, invoked, executed, resumed, outcome>>

\* ------------------------------------------------------------------------
\* Step 3: step_extract_text
\* ------------------------------------------------------------------------

\* "Text already extracted, loading from files...": one entry per *.txt of
\* text_dir, keyed by txt_file.stem.
OcrSkip ==
  /\ pc = "ocr"
  /\ IsCompleted(mem.state, "ocr")
  /\ Return(SeqMap(Stem, Glob(fs[mem.base].texts)))
  /\ UNCHANGED <<summary, fs, mem, args, results, todo, acc, invoked, returned, executed,
                 resumed, outcome>>

\* "No PDFs available. Run step 2 first."
OcrNoPdfs ==
  /\ pc = "ocr"
  /\ ~IsCompleted(mem.state, "ocr")
  /\ ~HasUpstream(mem.state, "pdfs")
  /\ Return(<<>>)
  /\ UNCHANGED <<summary, fs, mem, args, results, todo, acc, invoked, returned, executed,
                 resumed, outcome>>

\* PDFTextExtractor(output_dir=text_dir).process_directory(input_dir=pdfs_dir):
\* pdf_files = list(input_dir.glob("*.pdf"))
OcrBegin ==
  /\ pc = "ocr"
  /\ ~IsCompleted(mem.state, "ocr")
  /\ HasUpstream(mem.state, "pdfs")
  /\ invoked' = invoked \cup {"ocr"}
  /\ todo' = Glob(fs[mem.base].pdfs)
  /\ acc' = <<>>
  /\ pc' = "ocr_loop"
  /\ UNCHANGED <<summary, fs, mem, args, results, call, ret, returned, executed, resumed,
                 outcome>>

\* process_directory, one PDF: the cached text is read when the text file
\* exists and force_ocr is off; otherwise extract_pdf runs, and its text, if
\* any, is written and kept under the key pdf_path.name.
OcrOne(ok) ==
  /\ pc = "ocr_loop"
  /\ todo # <<>>
  /\ LET pdf == Head(todo)
     IN IF TxtName(pdf) \in fs[mem.base].texts /\ ~args.force_ocr
        THEN /\ acc' = Append(acc, pdf)
             /\ fs' = fs
        ELSE IF ok
             THEN /\ fs' = [fs EXCEPT ![mem.base].texts = @ \cup {TxtName(pdf)}]
                  /\ acc' = Append(acc, pdf)
             ELSE UNCHANGED <<fs, acc>>
  /\ todo' = Tail(todo)
  /\ UNCHANGED <<summary, mem, pc, args, results, call, invoked, ret, returned, executed,
                 resumed, outcome>>

\* process_directory returns results (an empty dict when there was no PDF);
\* state["texts"] = list(results.keys()), _save_state, return results.
OcrEnd ==
  /\ pc = "ocr_loop"
  /\ todo = <<>>
  /\ mem' = [mem EXCEPT !.state = Complete(@, "ocr", acc)]
  /\ fs' = SaveState(fs, mem.run_dir, mem'.state)
  /\ Return(acc)
  /\ returned' = [returned EXCEPT !["ocr"] = <<acc>>]
  /\ acc' = <<>>
  /\ UNCHANGED <<summary, args, results, todo, invoked, executed, resumed, outcome>>

\* ------------------------------------------------------------------------
\* Step 4: step_process_text
\* ------------------------------------------------------------------------

\* "Text already processed": return self.state["processed"]
ParseSkip ==
  /\ pc = "parse"
  /\ IsCompleted(mem.state, "parse")
  /\ Return(mem.state.processed)
  /\ UNCHANGED <<summary, fs, mem, args, results, todo, acc, invoked, returned, executed,
                 resumed, outcome>>

\* "No text files available. Run step 3 first."
ParseNoTexts ==
  /\ pc = "parse"
  /\ ~IsCompleted(mem.state, "parse")
  /\ ~HasUpstream(mem.state, "texts")
  /\ Return(<<>>)
  /\ UNCHANGED <<summary, fs, mem, args, results, todo, acc, invoked, returned, executed,
                 resumed, outcome>>

\* load_documents(text_dir): one document per *.txt, its id the file's stem.
LoadDocuments(files) == SeqMap(Stem, Glob(files))

\* The API key is looked up; without it, or when no document is loaded, the
\* method returns []; otherwise process_batch starts on the documents.
ParseBegin(api_key) ==
  /\ pc = "parse"
  /\ ~IsCompleted(mem.state, "parse")
  /\ HasUpstream(mem.state, "texts")
  /\ IF ~api_key \/ LoadDocuments(fs[mem.base].texts) = <<>>
     THEN /\ Return(<<>>)
          /\ UNCHANGED <<todo, acc>>
     ELSE /\ todo' = LoadDocuments(fs[mem.base].texts)
          /\ acc' = <<>>
          /\ pc' = "parse_loop"
          /\ UNCHANGED <<call, ret>>
  /\ UNCHANGED <<summary, fs, mem, args, results, invoked, returned, executed, resumed,
                 outcome>>

\* process_batch, one document: process_document calls the language model;
\* a summary is written to individual_summaries and appended to
\* processed_metadata.jsonl, a None is only logged.
ParseOne(ok) ==
  /\ pc = "parse_loop"
  /\ todo # <<>>
  /\ invoked' = invoked \cup {"parse"}
  /\ IF ok
     THEN /\ fs' = [fs EXCEPT ![mem.base].individual = @ \cup {Head(todo)},
                              ![mem.base].jsonl = Append(@, Head(todo))]
          /\ acc' = Append(acc, Head(todo))
     ELSE UNCHANGED <<fs, acc>>
  /\ todo' = Tail(todo)
  /\ UNCHANGED <<summary, mem, pc, args, results, call, ret, returned, executed, resumed,
                 outcome>>

\* process_batch: sorted(results, key=date_string or '', reverse=True).  The
\* stem number of a document stands for its date string.
RECURSIVE SortByDate(_)
SortByDate(q) ==
  IF q = <<>> THEN <<>>
  ELSE LET i == CHOOSE j \in 1..Len(q) :
                  /\ \A k \in 1..Len(q) : q[k][1] <= q[j][1]
                  /\ \A k \in 1..(j - 1) : q[k][1] < q[j][1]
       IN <<q[i]>> \o SortByDate(SubSeq(q, 1, i - 1) \o SubSeq(q, i + 1, Len(q)))

\* process_batch returns the sorted records; state["processed"] = results,
\* status "completed", _save_state, return results.
ParseEnd ==
  /\ pc = "parse_loop"
  /\ todo = <<>>
  /\ mem' = [mem EXCEPT !.state = Complete(@, "parse", SortByDate(acc))]
  /\ fs' = SaveState(fs, mem.run_dir, mem'.state)
  /\ Return(SortByDate(acc))
  /\ returned' = [returned EXCEPT !["parse"] = <<SortByDate(acc)>>]
  /\ acc' = <<>>
  /\ UNCHANGED <<summary, args, results, todo, invoked, executed, resumed, outcome>>

\* ------------------------------------------------------------------------
\* Specification
\* ------------------------------------------------------------------------

\* --limit is read by step_generate_pdfs and --force-ocr by step_extract_text
\* only: a call that does not request the stage is drawn with one value of it.
Reads(steps, s) == steps = <<>> \/ IsIn(s, steps)

\* os.getenv("OPENAI_API_KEY"), after load_dotenv(): whether the key is set.
HasCredential_always(env) == TRUE

HasCredential(env) == env.OPENAI_API_KEY

\* The environments a process can start in.
Environs == [OPENAI_API_KEY : BOOLEAN]

\* The environment belongs to the process: it is given when the process
\* starts, stays as it is while the process runs, and ends with it.
Environ ==
  IF pc' = "none" THEN environ' = NoEnviron
  ELSE IF pc = "none" THEN environ' \in Environs
  ELSE environ' = environ

\* One step of a process whose run_pipeline calls take their --steps from
\* lists, their --limit from limits and their --force-ocr from forces.
Step(lists, limits, forces) ==
  \/ New /\ Environ /\ UNCHANGED componentVars
  \/ ResumeMissingDir /\ Environ /\ UNCHANGED componentVars
  \/ \E target \in ResumeTargets : Resume(target) /\ Environ /\ UNCHANGED componentVars
  \/ /\ pc = "ready"
     /\ \E steps \in lists, limit \in limits, force_ocr \in forces :
          /\ Reads(steps, "pdf") \/ \A other \in limits : limit <= other
          /\ Reads(steps, "ocr") \/ ~force_ocr
          /\ RunPipeline(steps, limit, force_ocr)
     /\ Environ /\ UNCHANGED componentVars
  \/ AfterStage /\ Environ /\ UNCHANGED componentVars
  \/ Finish /\ Environ /\ UNCHANGED componentVars
  \/ ReturnToCaller /\ Environ /\ UNCHANGED componentVars
  \/ Interrupt /\ Environ /\ UNCHANGED componentVars
  \/ ScrapeSkip /\ Environ /\ UNCHANGED componentVars
  \/ \E articles \in ScrapeResults : ScrapeInvoke(articles) /\ Environ /\ UNCHANGED componentVars
  \/ ScrapeSaveUrls /\ Environ /\ UNCHANGED componentVars
  \/ ScrapeEnd /\ Environ /\ UNCHANGED componentVars
  \/ PdfSkip /\ Environ /\ UNCHANGED componentVars
  \/ PdfNoUrls /\ Environ /\ UNCHANGED componentVars
  \/ PdfBegin /\ Environ /\ UNCHANGED componentVars
  \/ \E ok \in BOOLEAN : PdfOne(ok) /\ Environ /\ UNCHANGED componentVars
  \/ PdfEnd /\ Environ /\ UNCHANGED componentVars
  \/ OcrSkip /\ Environ /\ UNCHANGED componentVars
  \/ OcrNoPdfs /\ Environ /\ UNCHANGED componentVars
  \/ OcrBegin /\ Environ /\ UNCHANGED componentVars
  \/ \E ok \in BOOLEAN : OcrOne(ok) /\ Environ /\ UNCHANGED componentVars
  \/ OcrEnd /\ Environ /\ UNCHANGED componentVars
  \/ ParseSkip /\ Environ /\ UNCHANGED componentVars
  \/ ParseNoTexts /\ Environ /\ UNCHANGED componentVars
  \/ ParseBegin(HasCredential(environ)) /\ Environ /\ UNCHANGED componentVars
  \/ \E ok \in BOOLEAN : ParseOne(ok) /\ Environ /\ UNCHANGED componentVars
  \/ ParseEnd /\ Environ /\ UNCHANGED componentVars

\* main: the exit status of a process that ended as `how` says, or that
\* would end now.  sys.exit(1) for a missing resume directory, a missing
\* state file and an exception out of run_pipeline; 0 when run_pipeline
\* returned or the run was interrupted.
ExitStatus(how) ==
  IF how \in {"resume_dir_not_found", "state_not_found", "failed"} THEN 1 ELSE 0

\* main: "Pipeline completed successfully!" is printed whenever run_pipeline
\* returns.
ReportsSuccess(how) == how \in {"ok", "halted"}

\* Each stage on its own (a stage method called standalone), and the full pipeline.
StageLists == {<<s>> : s \in StepSet} \cup {<<>>}

Next == Step(StageLists, Limits, BOOLEAN)

\* The same process, its run_pipeline calls taking any --steps, with a --limit
\* that cuts nothing off and without --force-ocr.
NextSteps == Step(StepLists, {MaxLimit}, {FALSE})

Spec == Init /\ [][Next]_vars

SpecSteps == Init /\ [][NextSteps]_vars

\* ------------------------------------------------------------------------
\* PDFTextExtractor (src/ocr/src/ocr2.py)
\* ------------------------------------------------------------------------

\* extract_pdf: "Minimum threshold" of the directly extracted text.
Threshold == 100

\* The stems of the PDFs.
Pdfs == 1..MaxPdfs

\* len(text.strip()) of what _extract_text_direct returns: nothing, the
\* threshold, one character more.
DirectLengths == {0, Threshold, Threshold + 1}

\* What a PDF file holds: whether fitz.open succeeds on it, the trimmed length
\* of its embedded text and its number of pages.
PdfDocs ==
  {[opens |-> TRUE, chars |-> c, pages |-> n] : c \in DirectLengths, n \in 1..MaxPages}
    \cup {[opens |-> FALSE, chars |-> 0, pages |-> 1]}

\* The directories process_directory can be given.
InputDirs == UNION {[S -> PdfDocs] : S \in SUBSET Pdfs}

\* A text: the embedded text of a PDF (of so many characters), the marked
\* texts of the pages OCR could read, joined in this order, or a text that an
\* earlier process_directory call left in the output directory.
DirectText(doc) == [method |-> "direct", chars |-> doc.chars, pages |-> <<>>]

OcrText(parts) == [method |-> "ocr", chars |-> 0, pages |-> parts]

OldText == [method |-> "old", chars |-> 0, pages |-> <<>>]

\* What open(output_file, 'w') and an f.write(text) that did not end leave in
\* the text file: the beginning of the text, or nothing.
PartialText == [method |-> "partial", chars |-> 0, pages |-> <<>>]

\* What becomes of a page in _extract_text_ocr: image_to_string returns text,
\* returns blank text, raises; or rendering the page to an image raises.
PageOutcomes == {"text", "blank", "ocr_error", "render_error"}

\* A process_directory call is about to start: any input directory, an output
\* directory that may hold the text of any of its PDFs, any force_ocr.
InitExtractor ==
  /\ input_dir \in InputDirs
  /\ output_dir \in [Pdfs -> {<<>>, <<OldText>>}]
  /\ \A s \in Pdfs : output_dir[s] # <<>> => s \in DOMAIN input_dir
  /\ force \in BOOLEAN
  /\ pdf_files = <<>>
  /\ extracted = <<>>
  /\ stats = NoStats
  /\ page_num = 0
  /\ text_parts = <<>>
  /\ at = "start"
  /\ tried = [s \in Pdfs |-> {}]
  /\ handled = [s \in Pdfs |-> ""]
  /\ ocr_log = <<>>

InitExtract == NoPipeline /\ InitExtractor /\ NoProcessor /\ NoFunctions /\ NoWeb

\* self.stats[key] += 1
Count_lost(st, key) == st

Count(st, key) == [st EXCEPT ![key] = @ + 1]

\* process_directory: `if output_file.exists() and not force_ocr`
ServedFromCache_stale(out, s, force_ocr) == out[s] # <<>>

ServedFromCache(out, s, force_ocr) == out[s] # <<>> /\ ~force_ocr

\* extract_pdf: `if text and len(text.strip()) > 100`
UsesDirect_atleast(chars) == chars >= Threshold

UsesDirect(chars) == chars > Threshold

\* _extract_text_ocr: an exception of image_to_string is caught in the page
\* loop, which goes on with the next page; an exception of the rendering is
\* not, and leaves the method.
Continues_strict(page) == page \notin {"render_error", "ocr_error"}

Continues(page) == page # "render_error"

\* The PDF the loop is at.
Current == Head(pdf_files)[1]

\* process_directory, up to the loop: pdf_files = list(input_dir.glob("*.pdf")),
\* and {} is returned at once when there is none.
ProcessDirectory ==
  /\ at = "start"
  /\ pdf_files' = Glob({PdfName(s) : s \in DOMAIN input_dir})
  /\ at' = IF pdf_files' = <<>> THEN "done" ELSE "next"
  /\ UNCHANGED <<input_dir, output_dir, force, extracted, stats, page_num,
                 text_parts, tried, handled, ocr_log>>

\* The loop is done with the current PDF.
NextPdf(h) ==
  /\ handled' = [handled EXCEPT ![Current] = h]
  /\ pdf_files' = Tail(pdf_files)
  /\ at' = "next"

\* "Already processed": the text file is read into results and the loop continues.
Cached ==
  /\ at = "next"
  /\ pdf_files # <<>>
  /\ ServedFromCache(output_dir, Current, force)
  /\ extracted' = (Head(pdf_files) :> output_dir[Current][1]) @@ extracted
  /\ NextPdf("cache")
  /\ UNCHANGED <<input_dir, output_dir, force, stats, page_num, text_parts, tried,
                 ocr_log>>

\* stats["processed"] += 1, extract_pdf: fitz.open raises, the exception is
\* caught, failed is counted and None returned.
ExtractFails ==
  /\ at = "next"
  /\ pdf_files # <<>>
  /\ ~ServedFromCache(output_dir, Current, force)
  /\ ~input_dir[Current].opens
  /\ stats' = Count(Count(stats, "processed"), "failed")
  /\ NextPdf("failed")
  /\ UNCHANGED <<input_dir, output_dir, force, extracted, page_num, text_parts,
                 tried, ocr_log>>

\* stats["processed"] += 1, extract_pdf: the embedded text is long enough and
\* is returned; process_directory writes it to the text file.
ExtractDirect ==
  /\ at = "next"
  /\ pdf_files # <<>>
  /\ ~ServedFromCache(output_dir, Current, force)
  /\ input_dir[Current].opens
  /\ ~force
  /\ UsesDirect(input_dir[Current].chars)
  /\ tried' = [tried EXCEPT ![Current] = @ \cup {"direct"}]
  /\ stats' = Count(Count(stats, "processed"), "direct_text")
  /\ output_dir' = [output_dir EXCEPT ![Current] = <<DirectText(input_dir[Current])>>]
  /\ extracted' = (Head(pdf_files) :> DirectText(input_dir[Current])) @@ extracted
  /\ NextPdf("direct")
  /\ UNCHANGED <<input_dir, force, page_num, text_parts, ocr_log>>

\* stats["processed"] += 1, extract_pdf: "Fall back to OCR", with the direct
\* extraction tried first unless force_ocr.
ExtractFallBack ==
  /\ at = "next"
  /\ pdf_files # <<>>
  /\ ~ServedFromCache(output_dir, Current, force)
  /\ input_dir[Current].opens
  /\ force \/ ~UsesDirect(input_dir[Current].chars)
  /\ tried' = [tried EXCEPT ![Current] =
                 @ \cup (IF force THEN {"ocr"} ELSE {"direct", "ocr"})]
  /\ stats' = Count(stats, "processed")
  /\ page_num' = 1
  /\ text_parts' = <<>>
  /\ ocr_log' = <<>>
  /\ at' = "ocr"
  /\ UNCHANGED <<input_dir, output_dir, force, pdf_files, extracted, handled>>

\* _extract_text_ocr, one page: the page is rendered and handed to
\* image_to_string; text that is not blank is kept with its page marker.  An
\* exception of the rendering reaches extract_pdf, which counts failed and
\* returns None.
OcrPage(page) ==
  /\ at = "ocr"
  /\ page_num <= input_dir[Current].pages
  /\ ocr_log' = Append(ocr_log, <<page_num, page>>)
  /\ text_parts' = IF page = "text" THEN Append(text_parts, page_num) ELSE text_parts
  /\ IF Continues(page)
     THEN /\ page_num' = page_num + 1
          /\ UNCHANGED <<stats, pdf_files, handled, at>>
     ELSE /\ page_num' = 0
          /\ stats' = Count(stats, "failed")
          /\ NextPdf("failed")
  /\ UNCHANGED <<input_dir, output_dir, force, extracted, tried>>

\* _extract_text_ocr returns the joined text_parts; extract_pdf counts
\* ocr_used and returns the text, or counts failed and returns None when the
\* text is empty; process_directory writes a text to the text file.
OcrDone ==
  /\ at = "ocr"
  /\ page_num > input_dir[Current].pages
  /\ page_num' = 0
  /\ IF text_parts # <<>>
     THEN /\ stats' = Count(stats, "ocr_used")
          /\ output_dir' = [output_dir EXCEPT ![Current] = <<OcrText(text_parts)>>]
          /\ extracted' = (Head(pdf_files) :> OcrText(text_parts)) @@ extracted
          /\ NextPdf("ocr")
     ELSE /\ stats' = Count(stats, "failed")
          /\ NextPdf("failed")
          /\ UNCHANGED <<output_dir, extracted>>
  /\ UNCHANGED <<input_dir, force, text_parts, tried, ocr_log>>

\* The loop has ended: _print_stats, return results.
DirectoryDone ==
  /\ at = "next"
  /\ pdf_files = <<>>
  /\ at' = "done"
  /\ UNCHANGED <<input_dir, output_dir, force, pdf_files, extracted, stats,
                 page_num, text_parts, tried, handled, ocr_log>>

\* extract_pdf has returned a text and process_directory is at
\* `with open(output_file, 'w') as f: f.write(text)`.
Writing ==
  \/ /\ at = "next"
     /\ pdf_files # <<>>
     /\ ~ServedFromCache(output_dir, Current, force)
     /\ input_dir[Current].opens
     /\ ~force
     /\ UsesDirect(input_dir[Current].chars)
  \/ /\ at = "ocr"
     /\ page_num > input_dir[Current].pages
     /\ text_parts # <<>>

\* KeyboardInterrupt while the text file is written: the file stays as far
\* as it was written, and the process ends, and with it the extractor and
\* the results it held.
InterruptedWriting ==
  /\ Writing
  /\ output_dir' = [output_dir EXCEPT ![Current] = <<PartialText>>]
  /\ pdf_files' = <<>>
  /\ extracted' = <<>>
  /\ stats' = NoStats
  /\ page_num' = 0
  /\ text_parts' = <<>>
  /\ at' = "interrupted"
  /\ tried' = [s \in Pdfs |-> {}]
  /\ handled' = [s \in Pdfs |-> ""]
  /\ ocr_log' = <<>>
  /\ UNCHANGED <<input_dir, force>>

\* The next run after an interrupted one: a new PDFTextExtractor, and
\* process_directory on the same directories, with any force_ocr.
Rerun ==
  /\ at = "interrupted"
  /\ force' \in BOOLEAN
  /\ at' = "start"
  /\ UNCHANGED <<input_dir, output_dir, pdf_files, extracted, stats, page_num,
                 text_parts, tried, handled, ocr_log>>

NextExtract ==
  \/ ProcessDirectory /\ UNCHANGED <<pipelineVars, processorVars, functionVars, webVars>>
  \/ Cached /\ UNCHANGED <<pipelineVars, processorVars, functionVars, webVars>>
  \/ ExtractFails /\ UNCHANGED <<pipelineVars, processorVars, functionVars, webVars>>
  \/ ExtractDirect /\ UNCHANGED <<pipelineVars, processorVars, functionVars, webVars>>
  \/ ExtractFallBack /\ UNCHANGED <<pipelineVars, processorVars, functionVars, webVars>>
  \/ \E page \in PageOutcomes : OcrPage(page) /\ UNCHANGED <<pipelineVars, processorVars, functionVars, webVars>>
  \/ OcrDone /\ UNCHANGED <<pipelineVars, processorVars, functionVars, webVars>>
  \/ DirectoryDone /\ UNCHANGED <<pipelineVars, processorVars, functionVars, webVars>>
  \/ InterruptedWriting /\ UNCHANGED <<pipelineVars, processorVars, functionVars, webVars>>
  \/ Rerun /\ UNCHANGED <<pipelineVars, processorVars, functionVars, webVars>>

SpecExtract == InitExtract /\ [][NextExtract]_vars

\* ------------------------------------------------------------------------
\* NewsletterProcessor (src/ocr/src/text_parse.py)
\* ------------------------------------------------------------------------

\* process_document: max_retries
MaxRetries == 3

\* process_document: the base and the cap of the wait after a rate limit, and
\* the wait after any other exception, in seconds.
BackoffBase == 60

BackoffCap == 300

RetryWait == 5

\* A string is the sequence of its characters, a character a number in the
\* order of the code points.  Strings are compared as Python compares them.
RECURSIVE StrLess(_, _)
StrLess(a, b) ==
  IF b = <<>> THEN FALSE
  ELSE IF a = <<>> THEN TRUE
  ELSE IF Head(a) # Head(b) THEN Head(a) < Head(b)
  ELSE StrLess(Tail(a), Tail(b))

\* The decimal digits of a natural number, as code points.
RECURSIVE Decimal(_)
Decimal(n) ==
  IF n < 10 THEN <<48 + n>> ELSE Decimal(n \div 10) \o <<48 + (n % 10)>>

\* The English month names, as code points.
MonthNames ==
  << <<74, 97, 110, 117, 97, 114, 121>>,
     <<70, 101, 98, 114, 117, 97, 114, 121>>,
     <<77, 97, 114, 99, 104>>,
     <<65, 112, 114, 105, 108>>,
     <<77, 97, 121>>,
     <<74, 117, 110, 101>>,
     <<74, 117, 108, 121>>,
     <<65, 117, 103, 117, 115, 116>>,
     <<83, 101, 112, 116, 101, 109, 98, 101, 114>>,
     <<79, 99, 116, 111, 98, 101, 114>>,
     <<78, 111, 118, 101, 109, 98, 101, 114>>,
     <<68, 101, 99, 101, 109, 98, 101, 114>> >>

\* A calendar date is a record [year, month, day].  The opening of a summary
\* that re.search(r'On ([^,]+), \d{4}', summary) finds, group(0): "On June 3,
\* 2024" for the third of June 2024.
Opening(d) ==
  <<79, 110, 32>> \o MonthNames[d.month] \o <<32>> \o Decimal(d.day)
    \o <<44, 32>> \o Decimal(d.year)

\* The calendar dates of the summaries: two that differ in the day by one
\* digit, one with a day of two digits, and one of an earlier month.
CalendarDates ==
  { [year |-> 2024, month |-> 6, day |-> 1],
    [year |-> 2024, month |-> 6, day |-> 3],
    [year |-> 2024, month |-> 6, day |-> 10],
    [year |-> 2024, month |-> 5, day |-> 9] }

June1 == Opening([year |-> 2024, month |-> 6, day |-> 1])

June3 == Opening([year |-> 2024, month |-> 6, day |-> 3])

May9 == Opening([year |-> 2024, month |-> 5, day |-> 9])

DateStrings == {Opening(d) : d \in CalendarDates}

\* date_string of a record: <<>> is None, <<s>> the string s.
DateValues == {<<>>} \cup {<<s>> : s \in DateStrings}

\* process_batch: key=lambda x: x.get('date_string') or ''
SortKey(r) == IF r.date_string = <<>> THEN <<>> ELSE r.date_string[1]

\* sorted(results, key=..., reverse=True): descending by key, records of
\* equal key in their original order.
SortResults_unsorted(q) == q

RECURSIVE SortResults(_)
SortResults(q) ==
  IF q = <<>> THEN <<>>
  ELSE LET i == CHOOSE j \in 1..Len(q) :
                  /\ \A k \in 1..Len(q) : ~StrLess(SortKey(q[j]), SortKey(q[k]))
                  /\ \A k \in 1..(j - 1) : StrLess(SortKey(q[k]), SortKey(q[j]))
       IN <<q[i]>> \o SortResults(SubSeq(q, 1, i - 1) \o SubSeq(q, i + 1, Len(q)))

\* 2^n
RECURSIVE Pow2(_)
Pow2(n) == IF n = 0 THEN 1 ELSE 2 * Pow2(n - 1)

\* process_document: wait_time = min(60 * (2 ** attempt), 300)
Backoff_linear(n) == BackoffBase * (n + 1)

Backoff(n) ==
  IF BackoffBase * Pow2(n) < BackoffCap THEN BackoffBase * Pow2(n) ELSE BackoffCap

\* process_document: `if attempt == max_retries - 1`
LastAttempt_never(n) == FALSE

LastAttempt(n) == n = MaxRetries - 1

\* process_batch: `if summary:`
Keeps_always(summary_text) == TRUE

Keeps(summary_text) == summary_text = "summary"

\* process_batch: the summary goes into individual_summaries / f"{doc_id}.txt"
\* and the record is appended to processed_metadata.jsonl.
SaveRecord_deferred(files, id) == files

SaveRecord(files, id) ==
  [individual |-> files.individual \cup {id}, lines |-> Append(files.lines, id)]

\* A process_batch call is about to start on any number of documents, with
\* an empty output directory.
InitProcessor ==
  /\ documents \in {[i \in 1..n |-> i] : n \in 0..MaxDocs}
  /\ batch = <<>>
  /\ attempt = 0
  /\ individual_dir = {}
  /\ jsonl_file = <<>>
  /\ combined_file = <<>>
  /\ bat = "start"
  /\ replies = <<>>
  /\ slept = <<>>
  /\ fate = [d \in 1..MaxDocs |-> ""]

InitBatch == NoPipeline /\ NoExtractor /\ InitProcessor /\ NoFunctions /\ NoWeb

\* The loop goes to the next document, or leaves.
NextDocument ==
  /\ documents' = Tail(documents)
  /\ attempt' = 0
  /\ bat' = IF Tail(documents) = <<>> THEN "sort" ELSE "call"

\* process_batch, up to the loop: the output directories are made.
ProcessBatch ==
  /\ bat = "start"
  /\ bat' = IF documents = <<>> THEN "sort" ELSE "call"
  /\ UNCHANGED <<documents, batch, attempt, individual_dir, jsonl_file,
                 combined_file, replies, slept, fate>>

\* What the history holds of the current process_document call.
Replies == IF attempt = 0 THEN <<>> ELSE replies

Slept == IF attempt = 0 THEN <<>> ELSE slept

\* process_document returns summary_text to process_batch: a summary is made
\* a record of results, with the date found in it; anything else is logged
\* as failed.
ReturnSummary(summary_text, date) ==
  IF Keeps(summary_text)
  THEN /\ batch' = Append(batch, [id |-> Head(documents), date_string |-> date])
       /\ bat' = "save"
       /\ UNCHANGED <<documents, attempt>>
  ELSE /\ NextDocument
       /\ batch' = batch

\* An attempt of process_document: the language model returns a summary, in
\* which a date is found or not.
Summarized(date) ==
  /\ bat = "call"
  /\ replies' = Append(Replies, "summary")
  /\ slept' = Slept
  /\ fate' = [fate EXCEPT ![Head(documents)] = "summary"]
  /\ ReturnSummary("summary", date)
  /\ UNCHANGED <<individual_dir, jsonl_file, combined_file>>

\* An attempt of process_document: the language model returns no content.
EmptyReply ==
  /\ bat = "call"
  /\ replies' = Append(Replies, "empty")
  /\ slept' = Slept
  /\ fate' = [fate EXCEPT ![Head(documents)] = "empty"]
  /\ ReturnSummary("", <<>>)
  /\ UNCHANGED <<individual_dir, jsonl_file, combined_file>>

\* `for attempt in range(max_retries)`: after attempt n (counted from 0) the
\* loop has another attempt.
MoreAttempts_four(n) == n + 1 < MaxRetries + 1

MoreAttempts(n) == n + 1 < MaxRetries

\* An attempt of process_document raises openai.RateLimitError: the backoff
\* is slept and the loop goes on; after the last attempt None is returned.
RateLimited ==
  /\ bat = "call"
  /\ replies' = Append(Replies, "rate_limit")
  /\ slept' = Append(Slept, Backoff(attempt))
  /\ IF MoreAttempts(attempt)
     THEN /\ attempt' = attempt + 1
          /\ UNCHANGED <<documents, batch, bat, fate>>
     ELSE /\ fate' = [fate EXCEPT ![Head(documents)] = "exhausted"]
          /\ ReturnSummary("none", <<>>)
  /\ UNCHANGED <<individual_dir, jsonl_file, combined_file>>

\* An attempt of process_document raises any other exception: on the last
\* attempt None is returned, before that 5 seconds are slept and the loop
\* goes on.
Errored ==
  /\ bat = "call"
  /\ replies' = Append(Replies, "error")
  /\ IF LastAttempt(attempt)
     THEN /\ slept' = Slept
          /\ fate' = [fate EXCEPT ![Head(documents)] = "exhausted"]
          /\ ReturnSummary("none", <<>>)
     ELSE /\ slept' = Append(Slept, RetryWait)
          /\ IF MoreAttempts(attempt)
             THEN /\ attempt' = attempt + 1
                  /\ UNCHANGED <<documents, batch, bat, fate>>
             ELSE /\ fate' = [fate EXCEPT ![Head(documents)] = "exhausted"]
                  /\ ReturnSummary("none", <<>>)
  /\ UNCHANGED <<individual_dir, jsonl_file, combined_file>>

\* process_batch: "Save individual file", "Also save to JSONL for metadata".
Save ==
  /\ bat = "save"
  /\ LET files == SaveRecord([individual |-> individual_dir, lines |-> jsonl_file],
                             Head(documents))
     IN /\ individual_dir' = files.individual
        /\ jsonl_file' = files.lines
  /\ NextDocument
  /\ UNCHANGED <<batch, combined_file, replies, slept, fate>>

\* process_batch after the loop: results are sorted, the combined file is
\* written in this order, and results are returned.
SortAndReturn ==
  /\ bat = "sort"
  /\ batch' = SortResults(batch)
  /\ combined_file' = <<batch'>>
  /\ bat' = "done"
  /\ UNCHANGED <<documents, attempt, individual_dir, jsonl_file, replies, slept,
                 fate>>

\* KeyboardInterrupt inside process_batch: the process ends, the files stay.
BatchInterrupt ==
  /\ bat \in {"call", "save", "sort"}
  /\ bat' = "interrupted"
  /\ documents' = <<>>
  /\ batch' = <<>>
  /\ attempt' = 0
  /\ UNCHANGED <<individual_dir, jsonl_file, combined_file, replies, slept, fate>>

NextBatch ==
  \/ ProcessBatch /\ UNCHANGED <<pipelineVars, extractorVars, functionVars, webVars>>
  \/ \E date \in DateValues : Summarized(date) /\ UNCHANGED <<pipelineVars, extractorVars, functionVars, webVars>>
  \/ EmptyReply /\ UNCHANGED <<pipelineVars, extractorVars, functionVars, webVars>>
  \/ RateLimited /\ UNCHANGED <<pipelineVars, extractorVars, functionVars, webVars>>
  \/ Errored /\ UNCHANGED <<pipelineVars, extractorVars, functionVars, webVars>>
  \/ Save /\ UNCHANGED <<pipelineVars, extractorVars, functionVars, webVars>>
  \/ SortAndReturn /\ UNCHANGED <<pipelineVars, extractorVars, functionVars, webVars>>
  \/ BatchInterrupt /\ UNCHANGED <<pipelineVars, extractorVars, functionVars, webVars>>

SpecBatch == InitBatch /\ [][NextBatch]_vars

\* One attempt of process_document, whatever the language model answers.
Attempt ==
  /\ \/ \E date \in DateValues : Summarized(date)
     \/ EmptyReply
     \/ RateLimited
     \/ Errored
  /\ UNCHANGED <<pipelineVars, extractorVars, functionVars, webVars>>

\* process_document runs in one thread that is never held back for good:
\* every call of the language model raises or returns (the client has a
\* time-out) and every sleep ends.
SpecBatchFair == SpecBatch /\ WF_processorVars(Attempt)

\* ------------------------------------------------------------------------
\* The CSV-ready file of process_batch (src/ocr/src/text_parse.py)
\* ------------------------------------------------------------------------

\* Bounds of the file: the length of a summary, the number of records.
MaxText == 3

MaxRows == 2

\* The characters of a summary: "A", "B", the pipe and the backslash.
Chars == {65, 66, 124, 92}

Summaries == UNION {[1..n -> Chars] : n \in 0..MaxText}

\* The id of the k-th record, "doc_k": a file stem, which the render stage
\* makes of letters, digits, ' ', '-' and '_' only.
DocId(k) == <<100, 111, 99, 95>> \o Decimal(k)

\* str.replace(old, new), old a single character
RECURSIVE Replace(_, _, _)
Replace(text, old, new) ==
  IF text = <<>> THEN <<>>
  ELSE (IF Head(text) = old THEN new ELSE <<Head(text)>>)
         \o Replace(Tail(text), old, new)

\* clean_summary = result['summary'].replace('|', '\\|')
CleanSummary_raw(summary_text) == summary_text

CleanSummary(summary_text) == Replace(summary_text, 124, <<92, 124>>)

\* f.write("document_id|summary\n")
Header == <<100, 111, 99, 117, 109, 101, 110, 116, 95, 105, 100, 124, 115, 117, 109, 109, 97, 114, 121>>

\* f.write(f"{result['id']}|{clean_summary}\n")
Line(r) == r.id \o <<124>> \o CleanSummary(r.summary)

\* The lines written for the records q, in order.
RECURSIVE Lines(_)
Lines(q) == IF q = <<>> THEN <<>> ELSE <<Line(Head(q))>> \o Lines(Tail(q))

\* The sorted results of a batch: up to MaxRows records, the k-th with the
\* id "doc_k" and any summary.
InitCsv ==
  /\ NoPipeline /\ NoExtractor /\ NoProcessor /\ NoWeb
  /\ rows \in UNION {{[k \in 1..n |-> [id |-> DocId(k), summary |-> q[k]]] :
                        q \in [1..n -> Summaries]} : n \in 0..MaxRows}
  /\ csv_file = <<>>
  /\ date_info = <<>> /\ raw = <<>> /\ result = <<>> /\ pd = "none"
  /\ cli = <<>> /\ clicks = <<>>

\* process_batch, "Create CSV-ready file": the header, then a line per record.
WriteCsv ==
  /\ csv_file = <<>>
  /\ csv_file' = <<Header>> \o Lines(rows)
  /\ UNCHANGED <<rows, date_info, raw, result, pd, cli, clicks>>

NextCsv == WriteCsv /\ UNCHANGED <<pipelineVars, extractorVars, processorVars, webVars>>

SpecCsv == InitCsv /\ [][NextCsv]_vars

\* ------------------------------------------------------------------------
\* The date post-processing of process_document (src/ocr/src/text_parse.py)
\* ------------------------------------------------------------------------

\* Bounds: the days of a token run from 0 to MaxDay, a reply has up to
\* MaxParts parts.
MaxDay == 32

MaxParts == 2

\* %b: the abbreviated name of month m.
Abbr(m) == SubSeq(MonthNames[m], 1, 3)

\* What r'([A-Za-z]{3}\s+\d{1,2}\s+\d{4})' can find in a file name: three
\* letters, a day of one or two digits, a year of four.  A token is a record
\* [mon, day, year]; the letters are those of September, February, January,
\* or of no month ("Foo").
Tokens ==
  [mon : {Abbr(9), Abbr(2), Abbr(1), <<70, 111, 111>>}, day : 0..MaxDay, year : {2025}]

\* date_info as a string: "Sep 7 2025".
TokenText(t) == t.mon \o <<32>> \o Decimal(t.day) \o <<32>> \o Decimal(t.year)

\* The month a three-letter name stands for, 0 if none.
MonthOf(mon) ==
  IF \E m \in 1..12 : Abbr(m) = mon
  THEN CHOOSE m \in 1..12 : Abbr(m) = mon
  ELSE 0

\* The number of days of a month.
DaysIn(month, year) ==
  IF month = 2
  THEN (IF year % 4 = 0 /\ (year % 100 # 0 \/ year % 400 = 0) THEN 29 ELSE 28)
  ELSE IF month \in {4, 6, 9, 11} THEN 30 ELSE 31

\* datetime.strptime(date_info, "%b %d %Y") returns a date; otherwise it
\* raises ValueError.
IsDate(t) ==
  /\ MonthOf(t.mon) # 0
  /\ t.day >= 1
  /\ t.day <= DaysIn(MonthOf(t.mon), t.year)

\* "th" if 4 <= day <= 20 or 24 <= day <= 30, else ["st", "nd", "rd"][day % 10 - 1]
Suffix(day) ==
  IF (4 <= day /\ day <= 20) \/ (24 <= day /\ day <= 30)
  THEN <<116, 104>>
  ELSE LET index == (day % 10) - 1
           list == <<<<115, 116>>, <<110, 100>>, <<114, 100>>>>
       IN IF index < 0 THEN list[Len(list) + 1 + index] ELSE list[index + 1]

\* formatted_date = f"{date_obj.strftime('%B')} {day}{suffix}, {date_obj.year}"
FormattedDate(t) ==
  (IF MonthOf(t.mon) = 0 THEN t.mon ELSE MonthNames[MonthOf(t.mon)])
    \o <<32>> \o Decimal(t.day) \o Suffix(t.day) \o <<44, 32>> \o Decimal(t.year)

\* "[date]"
Placeholder == <<91, 100, 97, 116, 101, 93>>

\* Any other text of a reply.
Word == <<77, 111, 114, 110, 105, 110, 103, 32, 66, 114, 101, 119, 32, 114, 101, 112, 111, 114, 116, 101, 100>>

\* A reply of the language model is a sequence of parts, each the
\* placeholder, the token as the file name has it, or other text.
ModelReplies(info) ==
  LET parts == {Placeholder, Word} \cup {TokenText(t) : t \in Range(info)}
  IN UNION {[1..n -> parts] : n \in 0..MaxParts}

\* old in result
Contains(text, old) == \E i \in 1..Len(text) : text[i] = old

\* result.replace(old, new)
ReplaceAll(text, old, new) ==
  [i \in 1..Len(text) |-> IF text[i] = old THEN new ELSE text[i]]

\* process_document after the model has replied: date_info is None or a
\* token, result is the reply.
InitDate ==
  /\ NoPipeline /\ NoExtractor /\ NoProcessor /\ NoWeb
  /\ rows = <<>> /\ csv_file = <<>>
  /\ cli = <<>> /\ clicks = <<>>
  /\ date_info \in {<<>>} \cup {<<t>> : t \in Tokens}
  /\ raw \in ModelReplies(date_info)
  /\ result = raw
  /\ pd = "reply"

\* `if result and date_info:` is false: the reply is returned as it is.
NoPostProcess ==
  /\ pd = "reply"
  /\ result = <<>> \/ date_info = <<>>
  /\ pd' = "returned"
  /\ UNCHANGED <<rows, csv_file, date_info, raw, result, cli, clicks>>

\* datetime.strptime(date_info, "%b %d %Y"), which may raise
Strptime ==
  /\ pd = "reply"
  /\ result # <<>> /\ date_info # <<>>
  /\ pd' = IF IsDate(date_info[1]) THEN "format" ELSE "except"
  /\ UNCHANGED <<rows, csv_file, date_info, raw, result, cli, clicks>>

\* The placeholder is replaced by the formatted date, or else the token is.
FormatDate ==
  /\ pd = "format"
  /\ result' =
       IF Contains(result, Placeholder)
       THEN ReplaceAll(result, Placeholder, FormattedDate(date_info[1]))
       ELSE IF Contains(result, TokenText(date_info[1]))
            THEN ReplaceAll(result, TokenText(date_info[1]),
                            FormattedDate(date_info[1]))
            ELSE result
  /\ pd' = "returned"
  /\ UNCHANGED <<rows, csv_file, date_info, raw, cli, clicks>>

\* except Exception: the placeholder is replaced by the token.
FormatFallback_keeps ==
  /\ pd = "except"
  /\ pd' = "returned"
  /\ UNCHANGED <<rows, csv_file, date_info, raw, result, cli, clicks>>

FormatFallback ==
  /\ pd = "except"
  /\ result' =
       IF Contains(result, Placeholder)
       THEN ReplaceAll(result, Placeholder, TokenText(date_info[1]))
       ELSE result
  /\ pd' = "returned"
  /\ UNCHANGED <<rows, csv_file, date_info, raw, cli, clicks>>

NextDate ==
  \/ NoPostProcess /\ UNCHANGED <<pipelineVars, extractorVars, processorVars, webVars>>
  \/ Strptime /\ UNCHANGED <<pipelineVars, extractorVars, processorVars, webVars>>
  \/ FormatDate /\ UNCHANGED <<pipelineVars, extractorVars, processorVars, webVars>>
  \/ FormatFallback /\ UNCHANGED <<pipelineVars, extractorVars, processorVars, webVars>>

SpecDate == InitDate /\ [][NextDate]_vars

\* ------------------------------------------------------------------------
\* The max_clicks of run_pipeline (src/ocr/pipeline.py)
\* ------------------------------------------------------------------------

\* Bounds: --limit runs from -MaxWideLimit to MaxWideLimit, a --max-clicks
\* given on the command line from 0 to MaxGiven.
MaxWideLimit == 35

MaxGiven == 2

\* int(limit / 10): the quotient, cut off toward zero
IntOfTenth(limit) ==
  IF limit >= 0 THEN limit \div 10 ELSE -((-limit) \div 10)

\* run_pipeline: `if max_clicks is None: max_clicks = max(1, int(limit / 10))`;
\* given is <<>> for None and <<n>> for n.
MaxClicks_falsy(limit, given) ==
  IF given = <<>> \/ given[1] = 0
  THEN (IF IntOfTenth(limit) > 1 THEN IntOfTenth(limit) ELSE 1)
  ELSE given[1]

MaxClicks(limit, given) ==
  IF given = <<>>
  THEN (IF IntOfTenth(limit) > 1 THEN IntOfTenth(limit) ELSE 1)
  ELSE given[1]

\* main has parsed the command line: any --limit, --max-clicks given or not.
InitClicks ==
  /\ NoPipeline /\ NoExtractor /\ NoProcessor /\ NoWeb
  /\ rows = <<>> /\ csv_file = <<>>
  /\ date_info = <<>> /\ raw = <<>> /\ result = <<>> /\ pd = "none"
  /\ cli \in [limit : (-MaxWideLimit)..MaxWideLimit,
               max_clicks : {<<>>} \cup {<<n>> : n \in 0..MaxGiven}]
  /\ clicks = <<>>

\* run_pipeline up to the call of step_scrape_urls(max_clicks=max_clicks, ...),
\* which hands max_clicks on to scrape_morning_brew_urls.
DeriveMaxClicks ==
  /\ clicks = <<>>
  /\ clicks' = <<MaxClicks(cli.limit, cli.max_clicks)>>
  /\ UNCHANGED <<rows, csv_file, date_info, raw, result, pd, cli>>

NextClicks == DeriveMaxClicks /\ UNCHANGED <<pipelineVars, extractorVars, processorVars, webVars>>

SpecClicks == InitClicks /\ [][NextClicks]_vars

\* ------------------------------------------------------------------------
\* fetch_json of the Reddit scraper, called by iter_new_posts_since
\* ------------------------------------------------------------------------

\* MAX_REQ, the requests iter_new_posts_since makes at most (1000 in the
\* script).
MaxReq == 3

\* REQUEST_SLEEP = 2.0
REQUEST_SLEEP == 2

\* `for attempt in range(3)`
FetchAttempts == 3

\* The seconds of the unit of the wait after a 429.
RetryUnit == 10

\* The status codes a response can have.
Statuses == {200, 429, 404, 503}

\* What r.json() of a 200 response can be: a listing with children, one
\* without, and a body that is no JSON.
Payloads == {"posts", "more_posts", "no_posts", "not_json"}

\* time.sleep(10 * (attempt + 1))
Wait_flat(attempt_index) == RetryUnit

Wait(attempt_index) == RetryUnit * (attempt_index + 1)

\* r.raise_for_status() raises HTTPError for a 4xx or 5xx status.
RaisesForStatus(status) == status >= 400 /\ status < 600

InitFetch ==
  /\ NoPipeline /\ NoExtractor /\ NoProcessor /\ NoFunctions
  /\ scraper = <<>> /\ generator = <<>>
  /\ reddit = [at |-> "loop", reqs |-> 0, attempt |-> 0, responses |-> <<>>,
               sleeps |-> <<>>, outcome |-> <<>>, payloads |-> <<>>]

\* iter_new_posts_since: `while reqs < MAX_REQ:` calls fetch_json.
CallFetchJson ==
  /\ reddit.at = "loop"
  /\ reddit.reqs < MaxReq
  /\ reddit' = [reddit EXCEPT !.at = "get", !.attempt = 0, !.responses = <<>>,
                              !.sleeps = <<>>, !.outcome = <<>>]

\* iter_new_posts_since: the while condition fails and the generator ends.
RequestsUsedUp ==
  /\ reddit.at = "loop"
  /\ reddit.reqs >= MaxReq
  /\ reddit' = [reddit EXCEPT !.at = "end"]

\* fetch_json: requests.get itself raises (time-out, no connection); the
\* exception leaves fetch_json.
GetRaises ==
  /\ reddit.at = "get"
  /\ reddit' = [reddit EXCEPT !.at = "raised", !.outcome = <<"RequestException">>]

\* fetch_json: one request is answered with a status; a 200 comes with a
\* body.  429: sleep and go on with the next attempt, RuntimeError after the
\* loop.  Other statuses: raise_for_status, then the pause, then r.json().
Respond(status, body) ==
  /\ reddit.at = "get"
  /\ LET got == Append(reddit.responses, status)
     IN IF status = 429
        THEN reddit' =
               [reddit EXCEPT
                  !.responses = got,
                  !.sleeps = Append(@, Wait(reddit.attempt)),
                  !.attempt = IF reddit.attempt + 1 < FetchAttempts THEN @ + 1 ELSE @,
                  !.at = IF reddit.attempt + 1 < FetchAttempts THEN "get" ELSE "raised",
                  !.outcome = IF reddit.attempt + 1 < FetchAttempts
                              THEN <<>> ELSE <<"RuntimeError">>]
        ELSE IF RaisesForStatus(status)
        THEN reddit' = [reddit EXCEPT !.responses = got, !.at = "raised",
                                      !.outcome = <<"HTTPError">>]
        ELSE reddit' =
               [reddit EXCEPT
                  !.responses = got,
                  !.sleeps = Append(@, REQUEST_SLEEP),
                  !.at = IF body = "not_json" THEN "raised" ELSE "returned",
                  !.outcome = IF body = "not_json" THEN <<"JSONDecodeError">>
                              ELSE <<body>>]

\* iter_new_posts_since takes the payload: reqs += 1; without children the
\* loop breaks, otherwise the posts are yielded and the loop goes on.
TakePayload ==
  /\ reddit.at = "returned"
  /\ reddit' = [reddit EXCEPT
                  !.reqs = @ + 1,
                  !.payloads = Append(@, reddit.outcome[1]),
                  !.at = IF reddit.outcome[1] = "no_posts" THEN "end" ELSE "loop"]

NextFetch ==
  \/ CallFetchJson /\ UNCHANGED <<pipelineVars, extractorVars, processorVars, functionVars, scraper, generator>>
  \/ RequestsUsedUp /\ UNCHANGED <<pipelineVars, extractorVars, processorVars, functionVars, scraper, generator>>
  \/ GetRaises /\ UNCHANGED <<pipelineVars, extractorVars, processorVars, functionVars, scraper, generator>>
  \/ \E status \in Statuses, body \in Payloads : Respond(status, body) /\ UNCHANGED <<pipelineVars, extractorVars, processorVars, functionVars, scraper, generator>>
  \/ TakePayload /\ UNCHANGED <<pipelineVars, extractorVars, processorVars, functionVars, scraper, generator>>

SpecFetch == InitFetch /\ [][NextFetch]_vars

\* ------------------------------------------------------------------------
\* scrape_morning_brew_urls
\* ------------------------------------------------------------------------

\* The links one load of the archive page adds at most.
MaxLinks == 2

\* The max_clicks the caller hands over at most.
MaxClicksGiven == 2

Site == "https://www.morningbrew.com"

\* The href attributes the page can hold: a relative and an absolute link
\* to one issue, a relative link to another, the "#" link and the generic
\* link to the latest issue.
Hrefs ==
  {[host |-> "", path |-> "/issues/a"],
   [host |-> Site, path |-> "/issues/a"],
   [host |-> "", path |-> "/issues/b"],
   [host |-> "", path |-> "#"],
   [host |-> Site, path |-> "/issues/latest"]}

\* What a load can add to the page, in document order.
Loads == UNION {[1..n -> Hrefs] : n \in 0..MaxLinks}

\* `not href or href == '#' or '/archive' in href`
IsInvalid(href) == href.path \in {"", "#", "/archive"}

\* urljoin("https://www.morningbrew.com", href): a relative link gets the
\* site in front, an absolute one stays.
Urljoin(href) == [host |-> Site, path |-> href.path]

\* any(pattern in full_url for pattern in skip_patterns)
IsSkipped(full_url) == full_url.path = "/issues/latest"

\* `if full_url in seen_urls: continue`
IsSeen_never(full_url, seen) == FALSE

IsSeen(full_url, seen) == full_url \in seen

\* The loop over the links of the page: every link that is valid, not
\* skipped and not seen is appended to articles and added to seen_urls.
RECURSIVE AddArticles(_, _)
AddArticles(found, links) ==
  IF links = <<>> THEN found
  ELSE LET full_url == Urljoin(Head(links))
       IN IF \/ IsInvalid(Head(links))
             \/ IsSkipped(full_url)
             \/ IsSeen(full_url, found.seen_urls)
          THEN AddArticles(found, Tail(links))
          ELSE AddArticles([articles |-> Append(found.articles, full_url),
                            seen_urls |-> found.seen_urls \cup {full_url}],
                           Tail(links))

InitScrape ==
  /\ NoPipeline /\ NoExtractor /\ NoProcessor /\ NoFunctions
  /\ reddit = <<>> /\ generator = <<>>
  /\ scraper \in [at : {"start"}, driver : {"none"},
                   max_clicks : (-1)..MaxClicksGiven,
                   page_source : {<<>>}, articles : {<<>>}, seen_urls : {{}},
                   click_count : {0}, iterations : {0}]

\* The function leaves with `finally: driver.quit()`.
Leave(how) == scraper' = [scraper EXCEPT !.at = how, !.driver = "quit"]

\* ./chromedriver.exe is not there: return [] before any driver exists.
NoChromedriver ==
  /\ scraper.at = "start"
  /\ scraper' = [scraper EXCEPT !.at = "returned"]

\* webdriver.Chrome(...) raises: no driver was made.
ChromeRaises ==
  /\ scraper.at = "start"
  /\ scraper' = [scraper EXCEPT !.at = "raised"]

\* driver = webdriver.Chrome(service=service, options=chrome_options)
StartDriver ==
  /\ scraper.at = "start"
  /\ scraper' = [scraper EXCEPT !.at = "get", !.driver = "open"]

\* driver.get("https://www.morningbrew.com/archive") loads the page, and
\* articles, seen_urls and click_count are initialised.
LoadArchive(links) ==
  /\ scraper.at = "get"
  /\ scraper' = [scraper EXCEPT !.at = "loop", !.page_source = links]

\* driver.get or driver.page_source raises.
PageRaises ==
  /\ scraper.at \in {"get", "loop"}
  /\ scraper.at = "loop" => scraper.click_count < scraper.max_clicks
  /\ Leave("raised")

\* `while click_count < max_clicks:` and the parsing of the page; when the
\* condition fails, `return articles`.
ParsePage ==
  /\ scraper.at = "loop"
  /\ IF scraper.click_count < scraper.max_clicks
     THEN LET found == AddArticles([articles |-> scraper.articles,
                                    seen_urls |-> scraper.seen_urls],
                                   scraper.page_source)
          IN scraper' = [scraper EXCEPT !.at = "button",
                                        !.articles = found.articles,
                                        !.seen_urls = found.seen_urls,
                                        !.iterations = @ + 1]
     ELSE Leave("returned")

\* No xpath finds a clickable button (`if not load_more: break`), or the
\* scroll or the click raises TimeoutException or NoSuchElementException
\* (`break`): return articles.
NoButton ==
  /\ scraper.at = "button"
  /\ Leave("returned")

\* The button is clicked, click_count += 1, and the page has more links.
ClickLoadMore(links) ==
  /\ scraper.at = "button"
  /\ scraper' = [scraper EXCEPT !.at = "loop",
                                !.click_count = @ + 1,
                                !.page_source = @ \o links]

\* The scroll or the click raises another exception: it leaves the function.
ClickRaises ==
  /\ scraper.at = "button"
  /\ Leave("raised")

NextScrape ==
  \/ NoChromedriver /\ UNCHANGED <<pipelineVars, extractorVars, processorVars, functionVars, reddit, generator>>
  \/ ChromeRaises /\ UNCHANGED <<pipelineVars, extractorVars, processorVars, functionVars, reddit, generator>>
  \/ StartDriver /\ UNCHANGED <<pipelineVars, extractorVars, processorVars, functionVars, reddit, generator>>
  \/ \E links \in Loads : LoadArchive(links) /\ UNCHANGED <<pipelineVars, extractorVars, processorVars, functionVars, reddit, generator>>
  \/ PageRaises /\ UNCHANGED <<pipelineVars, extractorVars, processorVars, functionVars, reddit, generator>>
  \/ ParsePage /\ UNCHANGED <<pipelineVars, extractorVars, processorVars, functionVars, reddit, generator>>
  \/ NoButton /\ UNCHANGED <<pipelineVars, extractorVars, processorVars, functionVars, reddit, generator>>
  \/ \E links \in Loads : ClickLoadMore(links) /\ UNCHANGED <<pipelineVars, extractorVars, processorVars, functionVars, reddit, generator>>
  \/ ClickRaises /\ UNCHANGED <<pipelineVars, extractorVars, processorVars, functionVars, reddit, generator>>

SpecScrape == InitScrape /\ [][NextScrape]_vars

\* ------------------------------------------------------------------------
\* MorningBrewPDFGenerator inside step_generate_pdfs
\* ------------------------------------------------------------------------

\* The characters of a title at most.
MaxTitle == 2

\* safe_title[:100]
NameCut == 100

\* The titles of articles: "A", "!" and what is made of them.
Titles == UNION {[1..n -> {65, 33}] : n \in 1..MaxTitle}

\* The dates of articles: none found, or "June 3, 2024".
ArticleDates ==
  {<<>>, MonthNames[6] \o <<32>> \o Decimal(3) \o <<44, 32>> \o Decimal(2024)}

\* state["urls"]: one or two articles with distinct URLs.
UrlLists ==
  UNION {{q \in [1..n -> [url : 1..MaxArticles, date : ArticleDates, title : Titles]] :
            \A i, j \in 1..n : q[i].url = q[j].url => i = j} : n \in 1..MaxArticles}

\* c.isalnum() for the ASCII digits and letters
IsAlnum(c) ==
  \/ c >= 48 /\ c <= 57
  \/ c >= 65 /\ c <= 90
  \/ c >= 97 /\ c <= 122

\* `c.isalnum() or c in (' ', '-', '_')`
IsKept(c) == IsAlnum(c) \/ c \in {32, 45, 95}

\* generate_pdf: the characters of title that are kept, cut to 100, ".pdf".
SafeTitle(title) ==
  LET kept == SelectSeq(title, IsKept)
  IN SubSeq(kept, 1, Min(Len(kept), NameCut)) \o <<46, 112, 100, 102>>

\* f"{i:03d}"
Pad3(i) ==
  LET digits == Decimal(i)
  IN [k \in 1..(3 - Min(3, Len(digits))) |-> 48] \o digits

\* process_urls: the date without commas and with "_" for blanks, "_", the
\* title; without a date the position in the list stands for it.
FileName(i, article) ==
  LET date_str == Replace(Replace(article.date, 44, <<>>), 32, <<95>>)
  IN IF date_str # <<>>
     THEN date_str \o <<95>> \o article.title
     ELSE Pad3(i) \o <<95>> \o article.title

InitRender ==
  /\ NoPipeline /\ NoExtractor /\ NoProcessor /\ NoFunctions
  /\ reddit = <<>> /\ scraper = <<>>
  /\ generator \in [at : {"start"}, driver : {"none"}, urls : UrlLists,
                     limit : 1..MaxLimit, todo : {<<>>}, i : {0},
                     files : {{}}, generated_pdfs : {<<>>}, pdfs : {<<>>}]

\* __enter__: webdriver.Chrome(...) raises, no driver was made.
EnterRaises ==
  /\ generator.at = "start"
  /\ generator' = [generator EXCEPT !.at = "raised"]

\* __enter__: self.driver = webdriver.Chrome(...)
EnterDriver ==
  /\ generator.at = "start"
  /\ generator' = [generator EXCEPT !.at = "enter", !.driver = "open"]

\* __enter__: execute_cdp_cmd("Page.setDownloadBehavior", ...) raises.  The
\* with statement calls __exit__ only after __enter__ has returned, so the
\* exception leaves step_generate_pdfs and the driver stays as it is.
EnterCdpRaises ==
  /\ generator.at = "enter"
  /\ generator' = [generator EXCEPT !.at = "raised"]

\* __enter__ returns; the body of the with statement writes urls_latest.json
\* and process_urls takes articles[start_from:start_from + limit].
EnterReturns ==
  /\ generator.at = "enter"
  /\ generator' = [generator EXCEPT !.at = "body",
                                    !.todo = Slice(generator.urls, generator.limit),
                                    !.i = 1]

\* process_urls, one article: generate_pdf writes the file and its path is
\* appended to generated_pdfs, or it catches an exception and returns None.
GeneratePdf(ok) ==
  /\ generator.at = "body"
  /\ generator.todo # <<>>
  /\ LET name == SafeTitle(FileName(generator.i, Head(generator.todo)))
     IN generator' =
          [generator EXCEPT
             !.files = IF ok THEN @ \cup {name} ELSE @,
             !.generated_pdfs = IF ok THEN Append(@, name) ELSE @,
             !.todo = Tail(@),
             !.i = @ + 1]

\* What __exit__ makes of the driver: `if self.driver: self.driver.quit()`.
Exit(driver) == IF driver = "open" THEN "quit" ELSE driver

\* An exception that generate_pdf does not catch (KeyboardInterrupt, a
\* failing write of urls_latest.json) leaves the with statement: __exit__.
BodyRaises ==
  /\ generator.at = "body"
  /\ generator' = [generator EXCEPT !.at = "raised", !.driver = Exit(@)]

\* After the loop: state["pdfs"] = [pdf.name for pdf in pdf_paths], the
\* stage is recorded, the state saved, and the with statement is left.
RecordPdfs ==
  /\ generator.at = "body"
  /\ generator.todo = <<>>
  /\ generator' = [generator EXCEPT !.at = "returned",
                                    !.pdfs = generator.generated_pdfs,
                                    !.driver = Exit(@)]

NextRender ==
  \/ EnterRaises /\ UNCHANGED <<pipelineVars, extractorVars, processorVars, functionVars, reddit, scraper>>
  \/ EnterDriver /\ UNCHANGED <<pipelineVars, extractorVars, processorVars, functionVars, reddit, scraper>>
  \/ EnterCdpRaises /\ UNCHANGED <<pipelineVars, extractorVars, processorVars, functionVars, reddit, scraper>>
  \/ EnterReturns /\ UNCHANGED <<pipelineVars, extractorVars, processorVars, functionVars, reddit, scraper>>
  \/ \E ok \in BOOLEAN : GeneratePdf(ok) /\ UNCHANGED <<pipelineVars, extractorVars, processorVars, functionVars, reddit, scraper>>
  \/ BodyRaises /\ UNCHANGED <<pipelineVars, extractorVars, processorVars, functionVars, reddit, scraper>>
  \/ RecordPdfs /\ UNCHANGED <<pipelineVars, extractorVars, processorVars, functionVars, reddit, scraper>>

SpecRender == InitRender /\ [][NextRender]_vars

\* ------------------------------------------------------------------------
\* Properties
\* ------------------------------------------------------------------------

\* C1: a stage method called while its stage name is in steps_completed
\* invokes no external collaborator during that call.
C1_SkipInvokesNothing == call.was_completed => invoked = {}

\* A completed extract stage has been called again and has returned.
C1_Witness ==
  /\ call.stage = "ocr"
  /\ call.was_completed
  /\ call.returned
  /\ invoked = {}

\* C2: the second call of a completed stage returns the artifact list the
\* completing call returned: the same identifiers, and as many.
C2_SecondCallSameList ==
  (call.returned /\ call.was_completed /\ returned[call.stage] # <<>>)
    => /\ Range(ret) = Range(returned[call.stage][1])
       /\ Len(ret) = Len(returned[call.stage][1])

\* The state has stage s on disk as it has it in memory: the stage name, the
\* stage's artifact list and a status that is not behind the stage.
PersistedHas(s) ==
  LET f == fs[mem.run_dir].state_file
  IN /\ Len(f) = 1
     /\ IsIn(StageName(s), f[1].steps_completed)
     /\ f[1][ResultKey(s)] = mem.state[ResultKey(s)]
     /\ StatusRank(f[1].status) >= StatusRank(StatusAfter(s))

\* C3: whenever the collaborator of a stage is invoked, every earlier stage
\* that has completed is already in pipeline_state.json, with its artifact
\* identifiers, its name in steps_completed and the status updated.
C3_SavedBeforeNextStage ==
  \A t \in invoked : \A s \in StepSet :
    (Idx(s) < Idx(t) /\ IsIn(StageName(s), mem.state.steps_completed))
      => PersistedHas(s)

\* In one run_pipeline call the scrape and pdf stages have completed and the
\* text extractor has been invoked.
C3_Witness ==
  /\ executed = <<"scrape", "pdf", "ocr">>
  /\ invoked = {"ocr"}
  /\ returned["scrape"] # <<>>
  /\ returned["pdf"] # <<>>
  /\ PersistedHas("scrape")
  /\ PersistedHas("pdf")

\* The persisted state of run directory d lists exactly the artifacts the
\* directory holds.
ListsExactlyTheStore(d) ==
  LET st == fs[d].state_file[1]
  IN /\ Range(st.pdfs) = fs[d].pdfs
     /\ {TxtName(k) : k \in Range(st.texts)} = fs[d].texts
     /\ Range(st.processed) = fs[d].individual

\* C4: after an interrupt, every persisted state lists exactly the artifacts
\* written to its run directory: none it lists is missing, none written is
\* absent from it.
C4_InterruptLeavesConsistent ==
  outcome = "interrupted"
    => \A d \in Constructed : fs[d].state_file # <<>> => ListsExactlyTheStore(d)

\* The upstream list of the render, extract and summarize stages.
UpstreamKey(s) ==
  CASE s = "pdf" -> "urls"
    [] s = "ocr" -> "pdfs"
    [] s = "parse" -> "texts"

\* C5: a render, extract or summarize stage that is not completed and whose
\* upstream list is empty returns an empty result, invokes no collaborator
\* and leaves the state and every file as they were.
C5_PrerequisiteFailsFast ==
  [][\A s \in {"pdf", "ocr", "parse"} :
       (/\ pc = s
        /\ ~IsIn(StageName(s), mem.state.steps_completed)
        /\ mem.state[UpstreamKey(s)] = <<>>
        /\ outcome' # "interrupted")
         => /\ pc' = "returned"
            /\ ret' = <<>>
            /\ invoked' = {}
            /\ mem' = mem
            /\ fs' = fs]_vars

\* The summarize stage has returned from its prerequisite check.
C5_Witness ==
  /\ call.stage = "parse"
  /\ call.returned
  /\ ~call.was_completed
  /\ mem.state.texts = <<>>
  /\ ret = <<>>
  /\ invoked = {}

\* Every stage is in steps_completed.
AllCompleted(st) == \A s \in StepSet : IsIn(StageName(s), st.steps_completed)

\* C6: an orchestrator that has loaded the persisted state of a run that
\* completed every stage and wrote its summary ends run() with a summary
\* whose count for every stage is the count of the original run, the length
\* of the stage's list in that state.
C6_ResumeReproducesCounts ==
  (/\ resumed.kind = "run"
   /\ fs[resumed.dir].results_file
   /\ args.steps = all_steps
   /\ outcome \in {"ok", "halted", "failed"}
   /\ returned = NoReturns
   /\ AllCompleted(fs[resumed.dir].state_file[1]))
    => /\ summary # <<>>
       /\ \A s \in StepSet :
            summary[1].results[ResultKey(s)]
              = Len(fs[resumed.dir].state_file[1][ResultKey(s)])

\* C7: a process started with --resume on a location that holds no state
\* file ends at once with a failure: it runs no pipeline and calls no stage.
C7_ResumeWithoutStateFails ==
  resumed.kind \in {"missing", "nostate"}
    => /\ pc = "none"
       /\ outcome \in {"resume_dir_not_found", "state_not_found"}
       /\ executed = <<>>
       /\ call = NoCall
       /\ invoked = {}

\* --resume has named an existing directory without pipeline_state.json.
C7_Witness ==
  /\ resumed.kind = "nostate"
  /\ outcome = "state_not_found"
  /\ pc = "none"

\* C8: the stage methods a run_pipeline call has called are requested ones,
\* in the order of all_steps whatever the order of the request, and a call
\* that reaches its end has called every requested stage.
C8_CanonicalOrder ==
  /\ \A i, j \in 1..Len(executed) : i < j => Idx(executed[i]) < Idx(executed[j])
  /\ Range(executed) \subseteq Range(args.steps)
  /\ outcome = "ok" => Range(executed) = Range(args.steps)

\* The four stages were requested in reverse and have run in canonical order.
C8_Witness ==
  /\ args.steps = <<"parse", "ocr", "pdf", "scrape">>
  /\ executed = <<"scrape", "pdf", "ocr", "parse">>
  /\ outcome = "ok"

\* State b is state a or a later one.
Accumulates(a, b) ==
  /\ Range(a.steps_completed) \subseteq Range(b.steps_completed)
  /\ StatusRank(a.status) <= StatusRank(b.status)

\* C9: no step removes a stage name from steps_completed or moves status
\* back, in the state an orchestrator holds or in a persisted state file.
C9_StateAccumulates ==
  [][/\ \A d \in Dirs :
          fs[d].state_file # <<>>
            => /\ fs'[d].state_file # <<>>
               /\ Accumulates(fs[d].state_file[1], fs'[d].state_file[1])
     /\ (mem.base # 0 /\ mem'.base = mem.base)
          => Accumulates(mem.state, mem'.state)]_vars

\* All four stages have been recorded, in memory and on disk.
C9_Witness ==
  /\ mem.base # 0
  /\ mem.state.status = "completed"
  /\ Len(mem.state.steps_completed) = 4
  /\ fs[mem.run_dir].state_file = <<mem.state>>

\* C10 as claimed: once every requested stage of a run_pipeline call has run,
\* the summary with one count per requested stage is in pipeline_results.json.
C10_SummaryAfterAllStages ==
  (pc = "done" /\ Range(args.steps) \subseteq Range(executed))
    => /\ summary # <<>>
       /\ DOMAIN summary[1].results = {ResultKey(s) : s \in Range(args.steps)}

\* No requested scrape, pdf or ocr stage has returned an empty result.
NoneEmpty(steps, res) ==
  \A s \in Range(steps) \ {"parse"} :
    ResultKey(s) \in DOMAIN res /\ res[ResultKey(s)] > 0

\* C10, amended: when run_pipeline returns, the summary {run_id, run_dir,
\* steps_run, results} with one count per requested stage has been written
\* if no requested scrape, pdf or ocr stage returned an empty result, and no
\* summary has been written otherwise; the step that writes it changes no
\* pipeline_state.json.
C10_SummaryUnlessHalted ==
  [][(pc # "done" /\ pc' = "done")
       => /\ \A d \in Dirs : fs'[d].state_file = fs[d].state_file
          /\ IF NoneEmpty(args'.steps, results')
             THEN /\ summary' = <<[run_id |-> mem'.state.run_id,
                                   run_dir |-> mem'.run_dir,
                                   steps_run |-> args'.steps,
                                   results |-> results']>>
                  /\ DOMAIN results' = {ResultKey(s) : s \in Range(args'.steps)}
                  /\ fs'[mem'.run_dir].results_file
             ELSE /\ summary' = <<>>
                  /\ fs'[mem'.run_dir].results_file = fs[mem.run_dir].results_file
    ]_vars

\* Two stages were requested out of order and the summary has been written.
C10_Witness ==
  /\ pc = "done"
  /\ args.steps = <<"pdf", "scrape">>
  /\ summary # <<>>
  /\ summary[1].results = [urls |-> 2, pdfs |-> 1]

\* The stage whose artifact list is the upstream list of stage s.
UpstreamStage(s) == all_steps[Idx(s) - 1]

\* C11: whenever a render, extract or summarize stage has returned from its
\* prerequisite check because its upstream list is empty, the upstream stage
\* is not recorded as completed, so that calling it again invokes its
\* collaborator instead of skipping.
C11_PrerequisiteRecoverable ==
  \A s \in {"pdf", "ocr", "parse"} :
    (/\ call.stage = s
     /\ call.returned
     /\ ~call.was_completed
     /\ mem.state[UpstreamKey(s)] = <<>>
     /\ ret = <<>>)
      => ~IsCompleted(mem.state, UpstreamStage(s))

\* The PDFs process_directory has called extract_pdf on, as far as it has come.
Extracted == {s \in DOMAIN input_dir : handled[s] \in {"direct", "ocr", "failed"}}

\* C12: without force_ocr, a PDF whose embedded text is longer than 100
\* characters after trimming is returned as direct extraction, without OCR,
\* and counted in direct_text, and one whose text is not longer goes to OCR;
\* with force_ocr the direct extraction is never called and the PDF goes to OCR.
C12_ExtractionPolicy ==
  /\ \A s \in DOMAIN input_dir :
       (input_dir[s].opens /\ (s \in Extracted \/ tried[s] # {}))
         => IF force
            THEN tried[s] = {"ocr"} /\ handled[s] # "direct"
            ELSE IF input_dir[s].chars > 100
                 THEN /\ tried[s] = {"direct"}
                      /\ handled[s] = "direct"
                      /\ extracted[PdfName(s)] = DirectText(input_dir[s])
                 ELSE /\ tried[s] = {"direct", "ocr"}
                      /\ handled[s] # "direct"
  /\ stats.direct_text = Cardinality({s \in DOMAIN input_dir : handled[s] = "direct"})

\* Without force_ocr, a PDF of 101 characters has been extracted directly
\* and one of 100 characters by OCR.
C12_Witness ==
  /\ at = "done"
  /\ ~force
  /\ \E a, b \in DOMAIN input_dir :
       /\ input_dir[a].chars = 101
       /\ handled[a] = "direct"
       /\ input_dir[b].chars = 100
       /\ handled[b] = "ocr"

\* The pages of an OCR log, and those of them that gave text.
RECURSIVE LogPages(_)
LogPages(log) == IF log = <<>> THEN <<>> ELSE <<Head(log)[1]>> \o LogPages(Tail(log))

RECURSIVE LogTextPages(_)
LogTextPages(log) ==
  IF log = <<>> THEN <<>>
  ELSE (IF Head(log)[2] = "text" THEN <<Head(log)[1]>> ELSE <<>>)
         \o LogTextPages(Tail(log))

\* C13: when the OCR of a PDF ends and no page failed to render, every page
\* has been handed to OCR, in page order, whatever OCR did on the pages
\* before it; the text of the PDF is the texts of the pages that gave some,
\* joined in page order, written to the text file and counted in ocr_used; if
\* no page gave text the PDF has no result, failed is counted and no text
\* file is written.
C13_PageFailuresSkipped ==
  [][(/\ at = "ocr"
      /\ at' = "next"
      /\ \A i \in 1..Len(ocr_log') : ocr_log'[i][2] # "render_error")
       => LET s == Head(pdf_files)[1]
              pages == LogTextPages(ocr_log')
          IN /\ LogPages(ocr_log') = [i \in 1..input_dir[s].pages |-> i]
             /\ IF pages # <<>>
                THEN /\ extracted'[PdfName(s)] = OcrText(pages)
                     /\ output_dir'[s] = <<OcrText(pages)>>
                     /\ handled'[s] = "ocr"
                     /\ stats' = [stats EXCEPT !.ocr_used = @ + 1]
                ELSE /\ handled'[s] = "failed"
                     /\ extracted' = extracted
                     /\ PdfName(s) \notin DOMAIN extracted'
                     /\ output_dir' = output_dir
                     /\ stats' = [stats EXCEPT !.failed = @ + 1]]_vars

\* OCR failed on the first page of a PDF and read the second: the PDF has the
\* text of its second page.
C13_Witness ==
  \E s \in DOMAIN input_dir :
    /\ handled[s] = "ocr"
    /\ pdf_files = <<>>
    /\ ocr_log = <<<<1, "ocr_error">>, <<2, "text">>>>
    /\ extracted[PdfName(s)] = OcrText(<<2>>)

\* C14: when process_directory comes to a PDF whose text file exists, then
\* without force_ocr no extraction method is called, no counter changes, no
\* file is written and the text of the file is the PDF's result; with
\* force_ocr the PDF is extracted as if the file were not there.
C14_CacheSkipsExtraction ==
  [][(at = "next" /\ pdf_files # <<>> /\ output_dir[Head(pdf_files)[1]] # <<>>)
       => LET s == Head(pdf_files)[1]
          IN IF ~force
             THEN /\ tried' = tried
                  /\ tried[s] = {}
                  /\ stats' = stats
                  /\ output_dir' = output_dir
                  /\ extracted'[PdfName(s)] = output_dir[s][1]
                  /\ handled'[s] = "cache"
             ELSE /\ stats'.processed = stats.processed + 1
                  /\ handled'[s] # "cache"
                  /\ input_dir[s].opens => "ocr" \in tried'[s]]_vars

\* A cached text has been returned for a PDF, untouched.
C14_Witness ==
  \E s \in DOMAIN input_dir :
    /\ at = "done"
    /\ handled[s] = "cache"
    /\ tried[s] = {}
    /\ output_dir[s] = <<OldText>>
    /\ extracted[PdfName(s)] = OldText
    /\ stats = NoStats

\* Between two PDFs, every PDF that was not served from the cache is counted
\* in processed and in exactly one of direct_text, ocr_used and failed.
CountersBalance ==
  /\ at \in {"next", "done"}
       => /\ stats.processed = stats.direct_text + stats.ocr_used + stats.failed
          /\ stats.processed = Cardinality(Extracted)
  /\ stats.direct_text = Cardinality({s \in Extracted : handled[s] = "direct"})
  /\ stats.ocr_used = Cardinality({s \in Extracted : handled[s] = "ocr"})
  /\ stats.failed = Cardinality({s \in Extracted : handled[s] = "failed"})

\* process_directory has gone over a directory of two PDFs, a with more than
\* 100 characters of embedded text, b without embedded text and read by OCR.
TextAndScan(a, b) ==
  /\ at = "done"
  /\ DOMAIN input_dir = {a, b}
  /\ a # b
  /\ input_dir[a].opens
  /\ input_dir[a].chars > 100
  /\ input_dir[b].opens
  /\ input_dir[b].chars = 0
  /\ handled[b] = "ocr"

\* C15 as claimed: the counters balance, and a batch of one PDF with more
\* than 100 characters of embedded text and one image-only PDF that OCR reads
\* ends with direct_text = 1, ocr_used = 1, failed = 0.
C15_CountersAndScenario ==
  /\ CountersBalance
  /\ \A a, b \in Pdfs :
       TextAndScan(a, b)
         => stats.direct_text = 1 /\ stats.ocr_used = 1 /\ stats.failed = 0

\* C15, amended: the counters balance, and the batch of the two PDFs ends
\* with direct_text = 1, ocr_used = 1, failed = 0 when force_ocr is off and
\* the PDF with embedded text has no text file in the output directory yet.
C15_CountersAndDefaultScenario ==
  /\ CountersBalance
  /\ \A a, b \in Pdfs :
       (TextAndScan(a, b) /\ ~force /\ handled[a] # "cache")
         => stats = [processed |-> 2, direct_text |-> 1, ocr_used |-> 1, failed |-> 0]

\* The batch of the two PDFs has ended, without force_ocr and without cache.
C15_Witness ==
  /\ TextAndScan(1, 2)
  /\ ~force
  /\ handled[1] = "direct"
  /\ stats = [processed |-> 2, direct_text |-> 1, ocr_used |-> 1, failed |-> 0]

\* The last process_document call has returned, and replies and slept are
\* its whole history.
Returned == attempt = 0 /\ replies # <<>> /\ bat # "interrupted"

\* The document of the last process_document call that has returned.
LastHandled == CHOOSE d \in 1..MaxDocs : fate[d] # "" /\ \A e \in 1..MaxDocs : fate[e] # "" => e <= d

\* The ids of a sequence of records.
RECURSIVE Ids(_)
Ids(q) == IF q = <<>> THEN <<>> ELSE <<Head(q).id>> \o Ids(Tail(q))

\* Every attempt of the call was answered with a rate limit.
OnlyRateLimits == \A i \in 1..Len(replies) : replies[i] = "rate_limit"

\* C16 as claimed: a process_document call that meets only rate limits waits
\* 60, 120 and 240 seconds after attempts 1 to 3 and returns None on the
\* fourth failure.
C16_FourthFailureReturnsNone ==
  (Returned /\ OnlyRateLimits)
    => /\ slept = <<60, 120, 240>>
       /\ Len(replies) = 4
       /\ fate[LastHandled] = "exhausted"

\* C16, amended: the wait after a rate limit on attempt i is 60, 120, 240
\* seconds for i = 1, 2, 3, and a call that meets only rate limits returns None
\* after the third of these waits, having made three attempts and no fourth.
C16_BackoffThenNone ==
  /\ \A i \in 1..Len(replies) :
       replies[i] = "rate_limit" => slept[i] = <<60, 120, 240>>[i]
  /\ (Returned /\ OnlyRateLimits)
       => /\ slept = <<60, 120, 240>>
          /\ Len(replies) = 3
          /\ fate[LastHandled] = "exhausted"

\* A call has met three rate limits and has returned.
C16_Witness ==
  /\ Returned
  /\ replies = <<"rate_limit", "rate_limit", "rate_limit">>
  /\ slept = <<60, 120, 240>>
  /\ fate[LastHandled] = "exhausted"

\* C17: after a failure that is not a rate limit on the first or the second
\* attempt, process_document sleeps 5 seconds and tries again; no call makes
\* more than 3 attempts, and a call whose third attempt fails so returns None:
\* the call ends without a wait, and its document has no record.
C17_ErrorRetriedThrice ==
  /\ Len(replies) <= 3
  /\ \A i \in 1..Len(replies) :
       (replies[i] = "error" /\ i < 3)
         => /\ slept[i] = 5
            /\ Len(replies) > i \/ attempt = i \/ bat = "interrupted"
  /\ (Returned /\ replies[Len(replies)] = "error")
       => /\ Len(replies) = 3
          /\ Len(slept) = 2
          /\ fate[LastHandled] = "exhausted"
          /\ \A i \in 1..Len(batch) : batch[i].id # LastHandled

\* A call has failed three times otherwise than by a rate limit and has returned.
C17_Witness ==
  /\ Returned
  /\ replies = <<"error", "error", "error">>
  /\ slept = <<5, 5>>
  /\ fate[LastHandled] = "exhausted"

\* The documents whose process_document call returned a summary.
Succeeded == {d \in 1..MaxDocs : fate[d] = "summary"}

\* C18: a document whose retries were exhausted gets no record, no summary
\* file and no line in processed_metadata.jsonl, and the loop goes on with the
\* documents after it, in input order; when process_batch returns, no
\* document is left and the records returned are those of the documents that
\* got a summary, one each.
C18_ExhaustedIsSkipped ==
  /\ \A d \in 1..MaxDocs :
       (fate[d] = "exhausted" /\ bat # "interrupted")
         => /\ d \notin Range(Ids(batch))
            /\ d \notin individual_dir
            /\ d \notin Range(jsonl_file)
            /\ bat \in {"call", "save", "sort", "done"}
            /\ documents # <<>> => Head(documents) > d
  /\ \A i \in 1..(Len(documents) - 1) : documents[i + 1] = documents[i] + 1
  /\ bat = "done"
       => /\ documents = <<>>
          /\ Range(Ids(batch)) = Succeeded
          /\ Len(batch) = Cardinality(Succeeded)

\* The second of three documents has exhausted its retries; process_batch
\* has returned the records of the first and the third.
C18_Witness ==
  /\ bat = "done"
  /\ fate[1] = "summary"
  /\ fate[2] = "exhausted"
  /\ fate[3] = "summary"
  /\ Range(Ids(batch)) = {1, 3}
  /\ Len(batch) = 2

\* Sequence p is a prefix of sequence q.
IsPrefix(p, q) == Len(p) <= Len(q) /\ SubSeq(q, 1, Len(p)) = p

\* C19: whenever a language-model call is about to start, every record made
\* so far has its line in processed_metadata.jsonl, in input order, and its
\* summary file; and no step, a failed document and an interrupt included,
\* removes a line or a summary file.
C19_PersistedBeforeNextCall ==
  [][/\ bat' = "call"
          => /\ jsonl_file' = Ids(batch')
             /\ Range(Ids(batch')) \subseteq individual_dir'
             /\ \A i \in 1..Len(batch') : batch'[i].id < Head(documents')
     /\ IsPrefix(jsonl_file, jsonl_file')
     /\ individual_dir \subseteq individual_dir']_vars

\* The batch was interrupted during the second document, after a rate limit;
\* the record of the first is in both files.
C19_Witness ==
  /\ bat = "interrupted"
  /\ fate[1] = "summary"
  /\ fate[2] = ""
  /\ replies = <<"rate_limit">>
  /\ jsonl_file = <<1>>
  /\ individual_dir = {1}

\* The date strings of a sequence of records.
RECURSIVE Dates(_)
Dates(q) == IF q = <<>> THEN <<>> ELSE <<Head(q).date_string>> \o Dates(Tail(q))

Denotes(opening) == CHOOSE d \in CalendarDates : Opening(d) = opening

\* Calendar date a is later than calendar date b.
IsLater(a, b) ==
  \/ a.year > b.year
  \/ a.year = b.year /\ a.month > b.month
  \/ a.year = b.year /\ a.month = b.month /\ a.day > b.day

\* C21: the combined file is in reverse chronological order: of two records
\* whose date strings denote different calendar dates, the one with the later
\* date comes first.
C21_ReverseChronological ==
  combined_file # <<>>
    => LET c == combined_file[1]
       IN \A i, j \in 1..Len(c) :
            (i < j /\ c[i].date_string # <<>> /\ c[j].date_string # <<>>)
              => ~IsLater(Denotes(c[j].date_string[1]),
                          Denotes(c[i].date_string[1]))

\* The places of a line that hold a pipe not preceded by a backslash.
Unescaped(line) ==
  {i \in 1..Len(line) : line[i] = 124 /\ (i = 1 \/ line[i - 1] # 92)}

\* A written summary read back: "\\|" stands for a pipe.
RECURSIVE Unescape(_)
Unescape(text) ==
  IF text = <<>> THEN <<>>
  ELSE IF Len(text) >= 2 /\ text[1] = 92 /\ text[2] = 124
       THEN <<124>> \o Unescape(Tail(Tail(text)))
       ELSE <<Head(text)>> \o Unescape(Tail(text))

\* C22: summaries_for_csv.txt holds the header and one line per record, in
\* order; a line is the id, a pipe, and the summary with every "|" written
\* as "\\|" ("A|B" as "A\\|B"): reading "\\|" as "|" gives the summary back,
\* and the only pipe of the line not preceded by a backslash is the one
\* after the id.
C22_PipesEscaped ==
  csv_file # <<>>
    => /\ Len(csv_file) = Len(rows) + 1
       /\ csv_file[1] = Header
       /\ \A k \in 1..Len(rows) :
            LET line == csv_file[k + 1]
                id == rows[k].id
                written == SubSeq(line, Len(id) + 2, Len(line))
            IN /\ Len(line) > Len(id)
               /\ SubSeq(line, 1, Len(id)) = id
               /\ Unescaped(line) = {Len(id) + 1}
               /\ Unescape(written) = rows[k].summary
               /\ rows[k].summary = <<65, 124, 66>>
                    => written = <<65, 92, 124, 66>>

\* The file has been written for two records, the first with the summary
\* "A|B", the second with a summary of pipes and a backslash.
C22_Witness ==
  /\ Len(rows) = 2
  /\ rows[1].summary = <<65, 124, 66>>
  /\ rows[2].summary = <<124, 92, 124>>
  /\ Len(csv_file) = 3
  /\ csv_file[2] = DocId(1) \o <<124, 65, 92, 124, 66>>

\* The English ordinal suffix of a day of the month: st for 1, 21, 31; nd
\* for 2, 22; rd for 3, 23; th otherwise.
Ordinal(day) ==
  IF day \in {1, 21, 31} THEN <<115, 116>>
  ELSE IF day \in {2, 22} THEN <<110, 100>>
  ELSE IF day \in {3, 23} THEN <<114, 100>>
  ELSE <<116, 104>>

\* The long-form ordinal date of a token that is a date: "September 7th, 2025".
LongForm(t) ==
  MonthNames[MonthOf(t.mon)] \o <<32>> \o Decimal(t.day) \o Ordinal(t.day)
    \o <<44, 32>> \o Decimal(t.year)

\* C23: when the token of the file name is a date and the reply contains
\* it, as the token or as the placeholder, every token and every placeholder
\* of the reply is replaced by the long-form ordinal date in what
\* process_document returns, the suffix being the English one for the day;
\* "Sep 7 2025" gives "September 7th, 2025".
C23_TokenBecomesLongForm ==
  (pd = "returned" /\ date_info # <<>> /\ IsDate(date_info[1]))
    => LET t == date_info[1]
       IN /\ Len(result) = Len(raw)
          /\ \A i \in 1..Len(raw) :
               result[i] = IF raw[i] \in {Placeholder, TokenText(t)}
                           THEN LongForm(t)
                           ELSE raw[i]
          /\ TokenText(t) = <<83, 101, 112, 32, 55, 32, 50, 48, 50, 53>>
               => LongForm(t) = <<83, 101, 112, 116, 101, 109, 98, 101, 114, 32, 55, 116, 104, 44, 32, 50, 48, 50, 53>>

\* C24: when the token of the file name is not a date, process_document
\* returns after the one reply, without raising: what it returns is the
\* reply with every placeholder replaced by the token as the file name has
\* it, and nothing else changed.
C24_FallbackToRawToken ==
  /\ (pd = "returned" /\ date_info # <<>> /\ ~IsDate(date_info[1]))
       => /\ Len(result) = Len(raw)
          /\ \A i \in 1..Len(raw) :
               result[i] = IF raw[i] = Placeholder
                           THEN TokenText(date_info[1])
                           ELSE raw[i]
  /\ pd = "except"
       => (date_info # <<>> /\ ~IsDate(date_info[1]) /\ result = raw /\ raw # <<>>)
  /\ (date_info # <<>> /\ ~IsDate(date_info[1])) => pd \in {"reply", "except", "returned"}

\* The token "Feb 30 2025" is no date; the reply held the placeholder and the
\* token, and what is returned holds the token twice.
C24_Witness ==
  /\ pd = "returned"
  /\ date_info = <<[mon |-> Abbr(2), day |-> 30, year |-> 2025]>>
  /\ raw = <<Placeholder, TokenText(date_info[1])>>
  /\ result = <<TokenText(date_info[1]), TokenText(date_info[1])>>

\* C25: in a process without the API key, a summarize stage that is not yet
\* completed and has texts to read returns the empty list at once, invoking
\* no collaborator and changing neither the state nor any file; no step of
\* the process invokes the language model or adds process_text to
\* steps_completed; the discover, render and extract stages complete as
\* they do with the key.
C25_NoCredentialNoSummaries ==
  [][(pc # "none" /\ ~environ.OPENAI_API_KEY)
       => /\ "parse" \notin invoked'
          /\ IsCompleted(mem'.state, "parse") => IsCompleted(mem.state, "parse")
          /\ (/\ pc = "parse"
              /\ ~IsCompleted(mem.state, "parse")
              /\ HasUpstream(mem.state, "texts")
              /\ pc' # "none")
               => /\ pc' = "returned"
                  /\ ret' = <<>>
                  /\ invoked' = {}
                  /\ mem' = mem
                  /\ fs' = fs]_vars

\* A process without the API key has completed the discover, render and
\* extract stages in one call, has text files to read, and its summarize
\* stage has returned the empty list, not completed.
C25_Witness ==
  /\ ~environ.OPENAI_API_KEY
  /\ pc = "returned"
  /\ call.stage = "parse"
  /\ executed = all_steps
  /\ mem.state.steps_completed = <<"scrape_urls", "generate_pdfs", "extract_text">>
  /\ fs[mem.base].texts # {}
  /\ invoked = {}
  /\ ret = <<>>

\* C26: a process that was to resume a missing directory, and a process
\* whose summarize stage found no API key, end with a non-zero exit status
\* and are not reported as completed successfully.
C26_ConfigurationErrorIsFatal ==
  /\ outcome = "resume_dir_not_found"
       => (pc = "none" /\ ExitStatus(outcome) # 0 /\ ~ReportsSuccess(outcome))
  /\ (/\ pc = "done"
      /\ call.stage = "parse"
      /\ ~call.was_completed
      /\ HasUpstream(mem.state, "texts")
      /\ ~environ.OPENAI_API_KEY)
       => (ExitStatus(outcome) # 0 /\ ~ReportsSuccess(outcome))

\* C27: a text file that an interrupted run left partially written is not
\* returned by a later process_directory call as the text of its PDF, and
\* the PDF is not dealt with as already processed.
C27_PartialTextNotTrusted ==
  \A s \in Pdfs :
    output_dir[s] = <<PartialText>>
      => /\ handled[s] # "cache"
         /\ PdfName(s) \in DOMAIN extracted => extracted[PdfName(s)] # PartialText

\* Sequence p is q with some of its elements left out.
RECURSIVE IsSubSeq(_, _)
IsSubSeq(p, q) ==
  IF p = <<>> THEN TRUE
  ELSE IF q = <<>> THEN FALSE
  ELSE IF Head(p) = Head(q) THEN IsSubSeq(Tail(p), Tail(q))
  ELSE IsSubSeq(p, Tail(q))

\* C28: when the render stage has run, state["pdfs"] holds at most
\* min(limit, number of urls) names (none for a limit below 0), and they are
\* names of the first articles of state["urls"], in stored order; an article
\* that fails to render leaves no name and the loop goes on.
C28_RenderAtMostLimit ==
  (/\ pc = "returned"
   /\ call.stage = "pdf"
   /\ ~call.was_completed
   /\ HasUpstream(mem.state, "urls"))
    => LET n == Min(IF args.limit < 0 THEN 0 ELSE args.limit, Len(mem.state.urls))
       IN /\ Len(mem.state.pdfs) <= n
          /\ IsSubSeq(mem.state.pdfs, SeqMap(PdfName, SubSeq(mem.state.urls, 1, n)))
          /\ ret = mem.state.pdfs

\* C29: without --max-clicks the scraper is given max(1, limit / 10), the
\* quotient cut off to an integer: 1 for every limit below 20, and for a
\* limit from 20 on the number q with 10 q <= limit < 10 (q + 1); a
\* --max-clicks that is given, 0 included, is handed on as it is.
C29_MaxClicksDerived ==
  clicks # <<>>
    => IF cli.max_clicks = <<>>
       THEN /\ clicks[1] >= 1
            /\ cli.limit < 20 => clicks[1] = 1
            /\ cli.limit >= 20
                 => (10 * clicks[1] <= cli.limit /\ cli.limit < 10 * (clicks[1] + 1))
       ELSE clicks = cli.max_clicks

\* --limit 35 without --max-clicks has given the scraper 3.
C29_Witness ==
  /\ cli = [limit |-> 35, max_clicks |-> <<>>]
  /\ clicks = <<3>>

\* C30: when a discover, render or extract stage called by run_pipeline has
\* returned an empty result, the next step of the call is its return: no
\* stage method is called and no collaborator invoked after it, and the
\* state, steps_completed with it, stays as the stage left it until the
\* call has returned to its caller.
C30_EmptyResultEndsCall ==
  [][/\ (/\ pc = "returned"
         /\ call.stage \in {"scrape", "pdf", "ocr"}
         /\ ret = <<>>
         /\ pc' # "none")
          => /\ pc' = "done"
             /\ outcome' = "halted"
             /\ executed[Len(executed)] = call.stage
             /\ executed' = executed
             /\ invoked' = invoked
             /\ call' = call
             /\ mem' = mem
     /\ (pc = "done" /\ outcome = "halted")
          => (pc' = "ready" /\ mem' = mem /\ fs' = fs)]_vars

\* A call for all four stages has returned after the render stage, which
\* rendered nothing; the extract and summarize stages were not called.
C30_Witness ==
  /\ pc = "done"
  /\ outcome = "halted"
  /\ args.steps = all_steps
  /\ call.stage = "pdf"
  /\ ~call.was_completed
  /\ invoked = {"pdf"}
  /\ ret = <<>>
  /\ executed = <<"scrape", "pdf">>
  /\ mem.state.steps_completed = <<"scrape_urls", "generate_pdfs">>

\* The artifacts of a run directory: what its urls, pdfs, extracted_text and
\* processed subdirectories hold.
Artifacts(dir) ==
  <<dir.urls_latest, dir.pdfs, dir.texts, dir.individual, dir.jsonl>>

\* C31: in a process that resumed a run, the urls, pdfs, extracted_text and
\* processed locations of the stage methods are those of the resumed run
\* directory, and no step of the process changes an artifact of any other
\* run directory.
C31_ResumedRunUsesItsDirectories ==
  [][(resumed.kind = "run" /\ pc # "none")
       => /\ mem.base = resumed.dir
          /\ \A d \in Dirs :
               d # resumed.dir => Artifacts(fs'[d]) = Artifacts(fs[d])]_vars

\* In state st every completed stage has a non-empty list of artifacts.
CompletedProduced(st) ==
  \A s \in StepSet : IsCompleted(st, s) => st[ResultKey(s)] # <<>>

\* C32: in the state of the orchestrator and in every pipeline_state.json, a
\* stage in steps_completed has a non-empty list: scrape_urls urls,
\* generate_pdfs pdfs, extract_text texts, process_text processed.
C32_CompletedStageProduced ==
  /\ pc # "none" => CompletedProduced(mem.state)
  /\ \A d \in Dirs :
       fs[d].state_file # <<>> => CompletedProduced(fs[d].state_file[1])

\* steps_completed of st is the first n stage names, in pipeline order, and
\* status is the value the n-th stage sets.
InPipelineOrder(st) ==
  LET n == Len(st.steps_completed)
  IN /\ n <= Len(all_steps)
     /\ \A i \in 1..n : st.steps_completed[i] = StageName(all_steps[i])
     /\ st.status = IF n = 0 THEN "initialized" ELSE StatusAfter(all_steps[n])

\* C33: in the state of the orchestrator and in every pipeline_state.json,
\* steps_completed is a prefix of scrape_urls, generate_pdfs, extract_text,
\* process_text without repetition, whatever stages the calls requested, and
\* status is the value of its last element, initialized when it is empty.
C33_StepsCompletedIsPrefix ==
  /\ InPipelineOrder(mem.state)
  /\ \A d \in Dirs :
       fs[d].state_file # <<>> => InPipelineOrder(fs[d].state_file[1])

\* Calls for single stages have completed the discover, render and extract
\* stages, the last of them the extract stage, and the state is saved.
C33_Witness ==
  /\ pc = "done"
  /\ args.steps = <<"ocr">>
  /\ mem.state.steps_completed = <<"scrape_urls", "generate_pdfs", "extract_text">>
  /\ mem.state.status = "text_extracted"
  /\ fs[mem.run_dir].state_file = <<mem.state>>

\* The reply is a failure of the call: a rate limit or another exception.
IsFailure(reply) == reply \in {"rate_limit", "error"}

\* What a process_document call whose attempts were answered by q returns:
\* the reply of its last attempt when that is no failure, None when its
\* three attempts failed.
CallResult(q) ==
  /\ Len(q) >= 1
  /\ Len(q) <= 3
  /\ \A i \in 1..(Len(q) - 1) : IsFailure(q[i])
  /\ IsFailure(q[Len(q)]) => Len(q) = 3

\* C34: whatever the language model answers, a process_document call makes
\* at most 3 calls of it, every call before the last one it makes has failed,
\* it returns the summary of the first call that did not fail or, after
\* three failures, None, and every process_document call that has started
\* returns (or the process is interrupted).
C34_AtMostThreeCallsAndReturns ==
  /\ [](/\ Len(replies) <= 3
        /\ attempt <= 2
        /\ Returned
             => /\ CallResult(replies)
                /\ fate[LastHandled] = "summary" <=> replies[Len(replies)] = "summary"
                /\ fate[LastHandled] = "exhausted" <=> IsFailure(replies[Len(replies)]))
  /\ \A n \in 1..MaxDocs :
       (bat = "call" /\ Len(documents) = n) ~> ~(bat = "call" /\ Len(documents) = n)

\* A call has returned the summary of its third attempt, after a rate limit
\* and another failure.
C34_Witness ==
  /\ Returned
  /\ replies = <<"rate_limit", "error", "summary">>
  /\ fate[LastHandled] = "summary"

\* C35: a process_document call whose third attempt has failed, by a rate
\* limit or otherwise, has slept after its first and its second attempt only.
C35_NoWaitAfterLastAttempt ==
  (Returned /\ Len(replies) = 3 /\ IsFailure(replies[3])) => Len(slept) = 2

\* No value occurs twice in q.
NoDuplicates(q) == \A i, j \in 1..Len(q) : q[i] = q[j] => i = j

C37_DistinctPdfNames ==
  (generator # <<>> /\ generator.at = "returned")
    => /\ NoDuplicates(generator.pdfs)
       /\ Cardinality(generator.files) = Len(generator.generated_pdfs)

\* C38: when the discovery collaborator or the render stage has been left,
\* by a return or by an exception, its browser session is not open.
C38_SessionReleased ==
  /\ (scraper # <<>> /\ scraper.at \in {"returned", "raised"}) => scraper.driver # "open"
  /\ (generator # <<>> /\ generator.at \in {"returned", "raised"})
       => generator.driver # "open"

\* C39: the discovery loop enters its body at most max_clicks times and
\* clicks at most max_clicks times (never, when max_clicks is not positive);
\* every pass through the body but the last has clicked once; and the
\* articles found have pairwise distinct URLs.
C39_ClicksBoundedUrlsDistinct ==
  scraper # <<>> =>
    /\ scraper.click_count <= (IF scraper.max_clicks > 0 THEN scraper.max_clicks ELSE 0)
    /\ scraper.iterations <= (IF scraper.max_clicks > 0 THEN scraper.max_clicks ELSE 0)
    /\ scraper.iterations \in {scraper.click_count, scraper.click_count + 1}
    /\ scraper.at = "loop" => scraper.iterations = scraper.click_count
    /\ NoDuplicates(scraper.articles)

\* The loop has clicked max_clicks = 2 times and returned two articles,
\* from a page that linked one of them twice, relatively and absolutely.
C39_Witness ==
  /\ scraper # <<>>
  /\ scraper.at = "returned"
  /\ scraper.max_clicks = 2
  /\ scraper.click_count = 2
  /\ Len(scraper.articles) = 2
  /\ \E i, j \in 1..Len(scraper.page_source) :
       /\ i < j
       /\ scraper.page_source[i].host # scraper.page_source[j].host
       /\ Urljoin(scraper.page_source[i]) = Urljoin(scraper.page_source[j])
       /\ Urljoin(scraper.page_source[i]) \in Range(scraper.articles)

\* C40: a fetch_json call makes at most 3 requests and repeats a request
\* only after a 429; the wait after the i-th request, when it was answered
\* 429, is 10 * i seconds; a call that returns was last answered 200, has
\* slept the fixed pause after it and returns the JSON of that response;
\* three 429 answers end the call with RuntimeError, and nothing else does.
C40_FetchJsonRetries ==
  LET n == Len(reddit.responses)
  IN /\ n <= 3
     /\ \A i \in 1..(n - 1) : reddit.responses[i] = 429
     /\ \A i \in 1..n : reddit.responses[i] = 429
          => Len(reddit.sleeps) >= i /\ reddit.sleeps[i] = 10 * i
     /\ reddit.at = "returned"
          => /\ n >= 1
             /\ reddit.responses[n] = 200
             /\ reddit.sleeps = [i \in 1..n |-> IF i < n THEN 10 * i ELSE 2]
             /\ reddit.outcome \in {<<"posts">>, <<"more_posts">>, <<"no_posts">>}
     /\ (n = 3 /\ reddit.responses[3] = 429)
          => reddit.at = "raised" /\ reddit.outcome = <<"RuntimeError">>
     /\ reddit.outcome = <<"RuntimeError">>
          => reddit.responses = <<429, 429, 429>> /\ reddit.sleeps = <<10, 20, 30>>

\* A second fetch_json call was answered 429 three times and has raised
\* RuntimeError after waits of 10, 20 and 30 seconds.
C40_Witness ==
  /\ reddit.at = "raised"
  /\ reddit.reqs = 1
  /\ reddit.responses = <<429, 429, 429>>
  /\ reddit.sleeps = <<10, 20, 30>>
  /\ reddit.outcome = <<"RuntimeError">>

====
